---- MODULE Spec2Model ----
(***************************************************************************)
(* CrossSeedAuto (plugins.v2/crossseedauto/__init__.py): the inventory     *)
(* filter, the retry ledger, the stop-loss verifier, the history store and *)
(* plugin initialisation, as a state machine.                              *)
(*                                                                         *)
(* Python strings that the code splits, strips or searches are sequences   *)
(* of one-character strings; opaque strings (hashes, states, urls) are TLA+*)
(* strings.  None and every other falsy site id is the number 0.           *)
(***************************************************************************)
EXTENDS Integers, Sequences, FiniteSets, TLC

VARIABLES
    cfg,          \* the plugin instance's private attributes (self._enabled, ...)
    savedConfig,  \* the plugin configuration held by the host (update_config)
    helpers,      \* TRUE when self._downloader_helper / _sites_helper / _media_chain are set
    job,          \* TRUE when the run-once job is scheduled on self._scheduler
    cache,        \* plugin data 'cache': [success |-> hash -> entry, failed |-> hash -> entry]
    history,      \* plugin data 'history': sequence of records
    engine,       \* the download engine's torrent list
    run,          \* the position and locals of _cross_seed_task
    last,         \* the last operation performed and what it observed
    now,          \* the clock read by datetime.now()
    parser        \* "source": _parse_search_results as written (a stub);
                  \* "site": a site-specific parser is installed in its place

vars == <<cfg, savedConfig, helpers, job, cache, history, engine, run, last, now, parser>>

-----------------------------------------------------------------------------
(* Bounds of the model *)

\* the largest number of records appended in the history specification
MaxAppends == 130

-----------------------------------------------------------------------------
(* Python str / list primitives *)

\* str.strip() removes leading and trailing whitespace; \s in a regular
\* expression matches the same characters
IsSpace(c) == c \in {" ", "\t"}

RECURSIVE LStrip(_)
LStrip(s) == IF s # <<>> /\ IsSpace(Head(s)) THEN LStrip(Tail(s)) ELSE s

RECURSIVE RStrip(_)
RStrip(s) ==
    IF s # <<>> /\ IsSpace(s[Len(s)]) THEN RStrip(SubSeq(s, 1, Len(s) - 1)) ELSE s

Strip(s) == RStrip(LStrip(s))

\* str.split(sep) for a one-character separator: "" splits to [""]
RECURSIVE Split(_, _)
Split(s, sep) ==
    IF \A i \in 1..Len(s) : s[i] # sep
    THEN <<s>>
    ELSE LET k == CHOOSE i \in 1..Len(s) :
                      s[i] = sep /\ \A j \in 1..(i - 1) : s[j] # sep
         IN  <<SubSeq(s, 1, k - 1)>> \o Split(SubSeq(s, k + 1, Len(s)), sep)

\* `sub in s` on two strings: substring containment
StrContains(sub, s) ==
    \E i \in 0..(Len(s) - Len(sub)) : SubSeq(s, i + 1, i + Len(sub)) = sub

\* `x in xs` on a list
InList(x, xs) == \E i \in 1..Len(xs) : xs[i] = x

\* [f(x) for x in xs]
MapSeq(f(_), xs) == [i \in 1..Len(xs) |-> f(xs[i])]

\* [x for x in xs if p(x)]
RECURSIVE FilterSeq(_, _)
FilterSeq(p(_), xs) ==
    IF xs = <<>> THEN <<>>
    ELSE (IF p(Head(xs)) THEN <<Head(xs)>> ELSE <<>>) \o FilterSeq(p, Tail(xs))

\* A tag value as the engine or the configuration delivers it: a list of
\* strings or one comma-separated string.
TagList(xs) == [kind |-> "list", v |-> xs]
TagStr(s) == [kind |-> "str", v |-> s]

-----------------------------------------------------------------------------
(* The environment: site registry, tags, tracker domains *)

\* SiteOper().list_order_by_pri(): the registered sites in priority order.
\* Site 4 has no domain configured.
SiteRegistry ==
    << [id |-> 4, domain |-> <<>>,    name |-> "S4", url |-> "http://s4"],
       [id |-> 1, domain |-> <<"a">>, name |-> "S1", url |-> "http://s1"],
       [id |-> 2, domain |-> <<"b">>, name |-> "S2", url |-> "http://s2"],
       [id |-> 3, domain |-> <<"c">>, name |-> "S3", url |-> "http://s3"] >>

TagNoReseed == <<"n", "r">>
TagHD == <<"h", "d">>
\* the literal tag appended by the placement controller
TagCrossSeed == <<"X">>

Hashes == {"h1", "h2"}

\* torrent states as the engine reports them, and str.lower() on them
EngineStates ==
    {"downloading", "metaDL", "allocating", "stalledDL",
     "seeding", "uploading", "stalledUP", "completed", "pausedUP", "checkingUP"}

Lower(state) ==
    CASE state = "metaDL" -> "metadl"
      [] state = "stalledDL" -> "stalleddl"
      [] state = "stalledUP" -> "stalledup"
      [] state = "pausedUP" -> "pausedup"
      [] state = "checkingUP" -> "checkingup"
      [] OTHER -> state

-----------------------------------------------------------------------------
(* Ledger: _load_cache, _save_cache, _update_success_cache,                *)
(* _update_failed_cache                                                    *)

\* a function with an empty domain: the dict {}
EmptyDict == [h \in {} |-> 0]

EmptyCache == [success |-> EmptyDict, failed |-> EmptyDict]

\* marks a key that the dict does not hold
NoKey == "<absent>"

\* The stored plugin data 'cache' is <<>> until the first save_data (get_data
\* returns None) and <<c>> afterwards.
_load_cache(stored) == IF stored = <<>> THEN EmptyCache ELSE stored[1]

\* d[k] = v on a dict
DictPut(d, k, v) == [x \in (DOMAIN d) \cup {k} |-> IF x = k THEN v ELSE d[x]]

\* a success update that saves the new entry alone, without what was loaded
_update_success_cache_alone(stored, torrent_hash, source_site, target_sites, time) ==
    [EmptyCache EXCEPT !.success =
        DictPut(EmptyDict, torrent_hash,
                [source_site |-> source_site,
                 target_sites |-> target_sites,
                 timestamp |-> time])]

_update_success_cache(stored, torrent_hash, source_site, target_sites, time) ==
    LET c == _load_cache(stored)
    IN  [c EXCEPT !.success =
            DictPut(c.success, torrent_hash,
                    [source_site |-> source_site,
                     target_sites |-> target_sites,
                     timestamp |-> time])]

\* a ledger whose failure entry is written anew on every failure
_update_failed_cache_anew(stored, torrent_hash, source_site, reason, time) ==
    LET c == _load_cache(stored)
    IN  [c EXCEPT !.failed =
            DictPut(c.failed, torrent_hash,
                    [source_site |-> source_site,
                     reason |-> reason,
                     last_reason |-> NoKey,
                     retry_count |-> 1,
                     timestamp |-> time])]

_update_failed_cache(stored, torrent_hash, source_site, reason, time) ==
    LET c == _load_cache(stored)
    IN  IF torrent_hash \in DOMAIN c.failed
        THEN [c EXCEPT !.failed[torrent_hash] =
                 [@ EXCEPT !.retry_count = @ + 1,
                           !.last_reason = reason,
                           !.timestamp = time]]
        ELSE [c EXCEPT !.failed =
                 DictPut(c.failed, torrent_hash,
                         [source_site |-> source_site,
                          reason |-> reason,
                          last_reason |-> NoKey,
                          retry_count |-> 1,
                          timestamp |-> time])]

-----------------------------------------------------------------------------
(* Inventory: _scan_torrents, _identify_site, _filter_torrents             *)

CompletedStates == {"seeding", "uploading", "stalledup", "completed"}

\* the dict _scan_torrents builds from an engine torrent
ScanRecord(torrent) ==
    [hash |-> torrent.hash, name |-> torrent.name, size |-> torrent.size,
     save_path |-> torrent.save_path, tags |-> torrent.tags,
     category |-> torrent.category, tracker |-> torrent.tracker]

\* a scan that also takes torrents that are fetching metadata or stalled
IsCompleted_or_fetching(torrent) ==
    Lower(torrent.state) \in CompletedStates \cup {"metadl", "stalleddl"}

IsCompleted(torrent) == Lower(torrent.state) \in CompletedStates

\* listing is what downloader.get_torrents() returned; have_helper is FALSE
\* when self._downloader_helper is None (the AttributeError is caught)
_scan_torrents(c, have_helper, listing) ==
    IF c.downloader = "" THEN <<>>
    ELSE IF ~have_helper THEN <<>>
    ELSE MapSeq(ScanRecord, FilterSeq(IsCompleted, listing))

RECURSIVE FirstSiteMatching(_, _)
FirstSiteMatching(sites, tracker_domain) ==
    IF sites = <<>> THEN 0
    ELSE IF Head(sites).domain # <<>> /\ StrContains(Head(sites).domain, tracker_domain)
         THEN Head(sites).id
         ELSE FirstSiteMatching(Tail(sites), tracker_domain)

_identify_site(tracker_domain) ==
    IF tracker_domain = <<>> THEN 0
    ELSE FirstSiteMatching(SiteRegistry, tracker_domain)

\* a tag string split on commas and the pieces left as they are
tags_of_unstripped(torrent) ==
    IF torrent.tags.kind = "str"
    THEN Split(torrent.tags.v, ",")
    ELSE torrent.tags.v

\* lines 366-368: a tag string is split on commas and each piece stripped
tags_of(torrent) ==
    IF torrent.tags.kind = "str"
    THEN MapSeq(Strip, Split(torrent.tags.v, ","))
    ELSE torrent.tags.v

\* lines 365-379
has_exclude_tag(torrent, c) ==
    /\ c.exclude_tags # <<>>
    /\ \E i \in 1..Len(c.exclude_tags) : InList(c.exclude_tags[i], tags_of(torrent))

\* a filter that does not consult the success map
in_success_cache_never(torrent, success_cache) == FALSE

\* lines 382-384
in_success_cache(torrent, success_cache) == torrent.hash \in DOMAIN success_cache

\* a filter that allows one attempt more than max_retry
retry_exhausted_above(torrent, failed_cache, c) ==
    /\ torrent.hash \in DOMAIN failed_cache
    /\ failed_cache[torrent.hash].retry_count > c.max_retry

\* lines 387-392
retry_exhausted(torrent, failed_cache, c) ==
    /\ torrent.hash \in DOMAIN failed_cache
    /\ failed_cache[torrent.hash].retry_count >= c.max_retry

\* a filter that leaves the configured target list as it is
filtered_target_sites_all(source_site, c) == c.target_sites

\* lines 402-409
filtered_target_sites(source_site, c) ==
    IF source_site # 0 /\ InList(source_site, c.target_sites)
    THEN FilterSeq(LAMBDA site : site # source_site, c.target_sites)
    ELSE c.target_sites

RECURSIVE _filter_torrents(_, _, _)
_filter_torrents(torrents, ch, c) ==
    IF torrents = <<>> THEN <<>>
    ELSE LET torrent == Head(torrents)
             rest == _filter_torrents(Tail(torrents), ch, c)
             source_site == _identify_site(torrent.tracker)
             targets == filtered_target_sites(source_site, c)
         IN  IF has_exclude_tag(torrent, c) THEN rest
             ELSE IF in_success_cache(torrent, ch.success) THEN rest
             ELSE IF retry_exhausted(torrent, ch.failed, c) THEN rest
             ELSE IF targets = <<>> THEN rest
             ELSE << torrent @@ [source_site |-> source_site,
                                 filtered_target_sites |-> targets] >> \o rest

-----------------------------------------------------------------------------
(* Plugin attributes and the locals of a run *)

\* the class attributes, lines 45-57; _clear_cache is rebound by the method
\* definition at line 486, so on a fresh instance the attribute is the method
DefaultMaxRetry == 3
DefaultCooldownMin == 5
DefaultCooldownMax == 10

DefaultCfg ==
    [enabled |-> FALSE, cron |-> "", onlyonce |-> FALSE, notify |-> FALSE,
     downloader |-> "", target_sites |-> <<>>, exclude_tags |-> <<>>,
     size_tolerance |-> [num |-> 1, den |-> 100],
     enable_split_mode |-> FALSE,
     search_cooldown_min |-> DefaultCooldownMin,
     search_cooldown_max |-> DefaultCooldownMax,
     max_retry |-> DefaultMaxRetry, clear_cache |-> "method"]

\* _cross_seed_task before it is entered
IdleRun ==
    [pc |-> "idle", ledger |-> EmptyCache, torrents |-> <<>>,
     filtered |-> <<>>, metas |-> <<>>, searches |-> <<>>, pairs |-> <<>>,
     idx |-> 1, success_count |-> 0, failed_count |-> 0,
     adds |-> <<>>, deletes |-> <<>>, notified |-> 0,
     loaded |-> FALSE, listed |-> FALSE]

NoOp == [op |-> "none"]

\* the release a torrent carries, which is also its display name
NameOf(hash) == CASE hash = "h1" -> "c1" [] hash = "h2" -> "c2" [] OTHER -> "c3"

SourceSize == 1000000

\* an engine torrent
Torrent(hash, state, tags, tracker) ==
    [hash |-> hash, name |-> NameOf(hash), state |-> state, size |-> SourceSize,
     save_path |-> "/data", tags |-> tags, category |-> "movie",
     tracker |-> tracker]

-----------------------------------------------------------------------------
(* SpecFilter: _scan_torrents and _filter_torrents applied to drawn inputs *)

\* the largest retry_count of a drawn failure entry
MaxRetryCount == 2

FilterTagInputs ==
    { TagList(<<>>), TagList(<<TagHD>>), TagList(<<TagNoReseed, TagHD>>),
      TagStr(<<>>),
      TagStr(<<"h", "d", ",", " ", "n", "r">>),
      TagStr(<<" ", "n", "r", " ", ",", "h", "d">>),
      TagStr(<<"n", "r", "h", "d">>) }

FilterTrackerInputs == { <<>>, <<"t", ".", "a">>, <<"b">>, <<"t">> }

FilterInventories ==
    LET first == { Torrent("h1", "seeding", tags, tracker) :
                       tags \in FilterTagInputs, tracker \in FilterTrackerInputs }
        second == { Torrent("h2", state, TagList(<<TagHD>>), tracker) :
                       state \in {"stalledUP", "downloading"},
                       tracker \in {<<"t", ".", "a">>, <<"t">>} }
    IN  { <<t>> : t \in first } \cup { <<t, u>> : t \in first, u \in second }

FilterCfgs ==
    { [DefaultCfg EXCEPT !.downloader = "qb", !.clear_cache = "false",
                         !.exclude_tags = ex, !.target_sites = ts,
                         !.max_retry = mr] :
        ex \in {<<>>, <<TagNoReseed>>},
        ts \in {<<>>, <<1>>, <<1, 2>>},
        mr \in 1..MaxRetryCount }

SuccessEntry == [source_site |-> 0, target_sites |-> <<1>>, timestamp |-> 0]
FailedEntry(n) ==
    [source_site |-> 0, reason |-> "push", last_reason |-> NoKey,
     retry_count |-> n, timestamp |-> 0]

FilterCaches ==
    { [success |-> [h \in S |-> SuccessEntry],
       failed |-> [h \in DOMAIN f |-> FailedEntry(f[h])]] :
        S \in SUBSET Hashes,
        f \in UNION { [F -> 1..MaxRetryCount] : F \in SUBSET Hashes } }

InitFilter ==
    /\ cfg \in FilterCfgs
    /\ savedConfig = DefaultCfg
    /\ helpers = TRUE
    /\ job = FALSE
    /\ cache \in { <<c>> : c \in FilterCaches }
    /\ history = <<>>
    /\ engine \in FilterInventories
    /\ run = IdleRun
    /\ last = NoOp
    /\ now = 0
    /\ parser = "source"

\* lines 166-177 of _cross_seed_task: load, scan, filter
FilterPass ==
    /\ run.pc = "idle"
    /\ LET ledger == _load_cache(cache)
           torrents == _scan_torrents(cfg, helpers, engine)
       IN  run' = [run EXCEPT !.pc = "filtered", !.ledger = ledger,
                              !.torrents = torrents,
                              !.filtered = _filter_torrents(torrents, ledger, cfg)]
    /\ UNCHANGED <<cfg, savedConfig, helpers, job, cache, history, engine, last, now, parser>>

NextFilter == FilterPass

SpecFilter == InitFilter /\ [][NextFilter]_vars

-----------------------------------------------------------------------------
(* Metadata: _extract_metadata, _normalize_title, _build_search_keywords   *)

LowerChar(ch) ==
    CASE ch = "T" -> "t"
      [] ch = "M" -> "m"
      [] ch = "A" -> "a"
      [] OTHER -> ch

AlnumLower ==
    {"a", "b", "c", "d", "e", "f", "g", "h", "i", "j", "k", "l", "m", "n", "o",
     "p", "q", "r", "s", "t", "u", "v", "w", "x", "y", "z",
     "0", "1", "2", "3", "4", "5", "6", "7", "8", "9"}

\* re.sub(r'\s+', ' ', s): every run of whitespace becomes one space
RECURSIVE CollapseSpaces(_)
CollapseSpaces(s) ==
    IF s = <<>> THEN <<>>
    ELSE IF IsSpace(Head(s))
         THEN <<" ">> \o CollapseSpaces(LStrip(s))
         ELSE <<Head(s)>> \o CollapseSpaces(Tail(s))

\* a normalisation that leaves runs of spaces as they are
_normalize_title_uncollapsed(title) ==
    IF title = <<>> THEN <<>>
    ELSE LET lowered == MapSeq(LowerChar, title)
             cleaned == MapSeq(LAMBDA ch : IF ch \in AlnumLower \/ IsSpace(ch)
                                           THEN ch ELSE " ", lowered)
         IN  Strip(cleaned)

_normalize_title(title) ==
    IF title = <<>> THEN <<>>
    ELSE LET lowered == MapSeq(LowerChar, title)
             cleaned == MapSeq(LAMBDA ch : IF ch \in AlnumLower \/ IsSpace(ch)
                                           THEN ch ELSE " ", lowered)
         IN  Strip(CollapseSpaces(cleaned))

\* recognize_by_path found nothing
NoMedia == [found |-> FALSE]

\* lines 533-548
_extract_from_mediainfo(media_info) ==
    [title |-> media_info.title, year |-> media_info.year,
     season |-> media_info.season, episode |-> media_info.episode,
     resolution |-> <<>>, normalized_title |-> _normalize_title(media_info.title)]

\* meta is what MetaInfo(torrent_name) recognised; lines 561-579
_parse_torrent_name(meta) ==
    IF meta.title = <<>> THEN NoMedia
    ELSE [found |-> TRUE,
          data |-> [title |-> meta.title, year |-> meta.year,
                    season |-> meta.season, episode |-> meta.episode,
                    resolution |-> meta.resolution,
                    normalized_title |-> _normalize_title(meta.title)]]

\* a resolver that asks the name parser first and the recogniser second
_extract_metadata_name_first(torrent, media_info, meta) ==
    IF _parse_torrent_name(meta).found THEN _parse_torrent_name(meta)
    ELSE IF torrent.save_path # "" /\ media_info.found
    THEN [found |-> TRUE, data |-> _extract_from_mediainfo(media_info)]
    ELSE NoMedia

\* media_info is what recognize_by_path returned for the save path (NoMedia
\* also stands for an exception, which the code logs and ignores)
_extract_metadata(torrent, media_info, meta) ==
    IF torrent.save_path # "" /\ media_info.found
    THEN [found |-> TRUE, data |-> _extract_from_mediainfo(media_info)]
    ELSE _parse_torrent_name(meta)

\* str(x).zfill(2) of a season or episode number below 100
ZFill2(x) == IF Len(x) = 1 THEN <<"0">> \o x ELSE x

\* the parts that ' '.join(keywords) joins
_build_search_keywords(metadata) ==
    (IF metadata.title # <<>> THEN <<metadata.title>> ELSE <<>>)
    \o (IF metadata.year # <<>> THEN <<metadata.year>> ELSE <<>>)
    \o (IF metadata.resolution # <<>> THEN <<metadata.resolution>> ELSE <<>>)
    \o (IF metadata.season # <<>> THEN <<<<"S">> \o ZFill2(metadata.season)>> ELSE <<>>)
    \o (IF metadata.episode # <<>> THEN <<<<"E">> \o ZFill2(metadata.episode)>> ELSE <<>>)

-----------------------------------------------------------------------------
(* Search: _validate_file_size, _parse_search_results, _search_site,       *)
(* _search_and_validate                                                    *)

BytesPerMB == 1048576

Abs(x) == IF x < 0 THEN -x ELSE x

\* a validation that rejects a difference equal to the tolerance
_validate_file_size_strict(source_size, target_size, c) ==
    IF source_size = 0 \/ target_size = 0 THEN FALSE
    ELSE Abs(source_size - target_size) * c.size_tolerance.den
             < c.size_tolerance.num * BytesPerMB

\* abs(source - target) / (1024 * 1024) <= tolerance, with the tolerance a
\* fraction num/den
_validate_file_size(source_size, target_size, c) ==
    IF source_size = 0 \/ target_size = 0 THEN FALSE
    ELSE Abs(source_size - target_size) * c.size_tolerance.den
             <= c.size_tolerance.num * BytesPerMB

\* a parser that returns the candidates the response body lists
_parse_search_results_rows(html, site) == html

\* lines 750-763: the source's parser returns no candidate for any response
_parse_search_results(html, site) == <<>>

\* the candidates a response body describes
ParseResponse(mode, html, site) ==
    IF mode = "source" THEN _parse_search_results(html, site) ELSE html

RECURSIVE SiteById(_, _)
SiteById(sites, site_id) ==
    IF sites = <<>> THEN [id |-> 0, domain |-> <<>>, name |-> "", url |-> ""]
    ELSE IF Head(sites).id = site_id THEN Head(sites)
    ELSE SiteById(Tail(sites), site_id)

HttpOK == 200

\* a site search that stops at the first candidate of a valid size
_search_site_first_match(site_id, source_size, response, c, mode) ==
    LET site == SiteById(SiteRegistry, site_id)
    IN  IF site.id = 0 THEN <<>>
        ELSE IF site.url = "" THEN <<>>
        ELSE IF response.status_code # HttpOK THEN <<>>
        ELSE LET torrents == ParseResponse(mode, response.text, site)
                 valid == FilterSeq(LAMBDA info :
                              _validate_file_size(source_size, info.size, c), torrents)
             IN  MapSeq(LAMBDA info :
                     [site_id |-> site_id, site_name |-> site.name,
                      torrent_url |-> info.url, torrent_id |-> info.id,
                      title |-> info.title, size |-> info.size],
                     SubSeq(valid, 1, IF valid = <<>> THEN 0 ELSE 1))

\* response is what the site returned for the search url
_search_site(site_id, source_size, response, c, mode) ==
    LET site == SiteById(SiteRegistry, site_id)
    IN  IF site.id = 0 THEN <<>>
        ELSE IF site.url = "" THEN <<>>
        ELSE IF response.status_code # HttpOK THEN <<>>
        ELSE LET torrents == ParseResponse(mode, response.text, site)
                 valid == FilterSeq(LAMBDA info :
                              _validate_file_size(source_size, info.size, c), torrents)
             IN  MapSeq(LAMBDA info :
                     [site_id |-> site_id, site_name |-> site.name,
                      torrent_url |-> info.url, torrent_id |-> info.id,
                      title |-> info.title, size |-> info.size], valid)

RECURSIVE SearchSites(_, _, _, _, _)
SearchSites(target_sites, source_size, responses, c, mode) ==
    IF target_sites = <<>> THEN <<>>
    ELSE _search_site(Head(target_sites), source_size,
                      responses[Head(target_sites)], c, mode)
         \o SearchSites(Tail(target_sites), source_size, responses, c, mode)

\* a search that reports a torrent without any match as a match that has no
\* download locator, so that the push stage records it
_search_and_validate_reporting(torrent, metadata, responses, c, mode) ==
    LET found == IF torrent.filtered_target_sites = <<>> THEN <<>>
                 ELSE IF _build_search_keywords(metadata) = <<>> THEN <<>>
                 ELSE SearchSites(torrent.filtered_target_sites, torrent.size,
                                  responses, c, mode)
    IN  IF found # <<>> THEN found
        ELSE << [site_id |-> 0, site_name |-> "", torrent_url |-> "",
                 torrent_id |-> "", title |-> "", size |-> 0] >>

\* responses[site_id] is the response of each queried site
_search_and_validate(torrent, metadata, responses, c, mode) ==
    IF torrent.filtered_target_sites = <<>> THEN <<>>
    ELSE IF _build_search_keywords(metadata) = <<>> THEN <<>>
    ELSE SearchSites(torrent.filtered_target_sites, torrent.size, responses, c, mode)

\* the site queries _search_and_validate makes, in order
SearchCalls(torrent, metadata) ==
    IF _build_search_keywords(metadata) = <<>> THEN <<>>
    ELSE MapSeq(LAMBDA site_id : [hash |-> torrent.hash, site_id |-> site_id],
                torrent.filtered_target_sites)

-----------------------------------------------------------------------------
(* History: _save_history *)

HistoryLimit == 100
HistoryKeep == 100

\* a store that keeps the first records and drops the newest
_save_history_keep_oldest(stored, record) ==
    LET appended == Append(stored, record)
    IN  IF Len(appended) > HistoryLimit
        THEN SubSeq(appended, 1, HistoryKeep)
        ELSE appended

_save_history(stored, record) ==
    LET appended == Append(stored, record)
    IN  IF Len(appended) > HistoryLimit
        THEN SubSeq(appended, Len(appended) - HistoryKeep + 1, Len(appended))
        ELSE appended

-----------------------------------------------------------------------------
(* Placement and stop-loss: _add_torrent_to_downloader,                    *)
(* _add_torrent_split_mode, _add_torrent_default_mode,                     *)
(* _monitor_torrent_status                                                 *)

\* ','.join(tags)
RECURSIVE Join(_)
Join(tags) ==
    IF tags = <<>> THEN <<>>
    ELSE IF Len(tags) = 1 THEN Head(tags)
    ELSE Head(tags) \o <<",">> \o Join(Tail(tags))

\* a tag list to which the cross-seed tag is appended in any case
push_tags_always_append(tags) ==
    LET listed == IF tags.kind = "str"
                  THEN FilterSeq(LAMBDA t : t # <<>>, MapSeq(Strip, Split(tags.v, ",")))
                  ELSE tags.v
    IN  Append(listed, TagCrossSeed)

\* lines 838-847: the tag list sent with the add
push_tags(tags) ==
    LET listed == IF tags.kind = "str"
                  THEN FilterSeq(LAMBDA t : t # <<>>, MapSeq(Strip, Split(tags.v, ",")))
                  ELSE tags.v
    IN  IF InList(TagCrossSeed, listed) THEN listed ELSE Append(listed, TagCrossSeed)

\* the keyword arguments of downloader.add_torrent in split mode
_add_torrent_split_mode(torrent_url, save_path, category, tags) ==
    [content |-> torrent_url, download_dir |-> save_path, savepath |-> save_path,
     category |-> category, tags |-> Join(tags), autoTMM |-> "False",
     paused |-> "False"]

\* a default mode that disables automatic management as split mode does
_add_torrent_default_mode_unmanaged(torrent_url, save_path, category, tags) ==
    [content |-> torrent_url, download_dir |-> save_path, savepath |-> save_path,
     category |-> category, tags |-> Join(tags), autoTMM |-> "False",
     paused |-> "False"]

\* the keyword arguments of downloader.add_torrent in default mode
_add_torrent_default_mode(torrent_url, save_path, category, tags) ==
    [content |-> torrent_url, download_dir |-> save_path, savepath |-> save_path,
     category |-> category, tags |-> Join(tags), autoTMM |-> NoKey,
     paused |-> NoKey]

DownloadingStates == {"downloading", "metadl", "allocating"}

\* lines 948-952: the position of the first torrent of the list whose state
\* is a downloading state, 0 when there is none
RECURSIVE FirstDownloading(_)
FirstDownloading(torrents) ==
    IF torrents = <<>> THEN 0
    ELSE IF Lower(Head(torrents).state) \in DownloadingStates THEN 1
    ELSE LET k == FirstDownloading(Tail(torrents))
         IN  IF k = 0 THEN 0 ELSE k + 1

\* listing is the outcome of downloader.get_torrents(); delete_raises tells
\* whether downloader.delete_torrents raises.  The result holds the value
\* returned and the delete calls made.
_monitor_torrent_status(listing, torrent_url, delete_raises) ==
    IF listing.raised THEN [ok |-> TRUE, deletes |-> <<>>]
    ELSE IF listing.torrents = <<>> THEN [ok |-> TRUE, deletes |-> <<>>]
    ELSE LET k == FirstDownloading(listing.torrents)
         IN  IF k = 0 THEN [ok |-> TRUE, deletes |-> <<>>]
             ELSE LET torrent_hash == listing.torrents[k].hash
                  IN  IF torrent_hash # ""
                      THEN [ok |-> delete_raises,
                            deletes |-> << [ids |-> <<torrent_hash>>,
                                            delete_file |-> TRUE] >>]
                      ELSE [ok |-> FALSE, deletes |-> <<>>]

\* The engine's side of an add: e.add is "ok", "reject" or "raise"; on "ok"
\* the engine holds the torrent of the url (once), in state e.state, at the
\* back of its list.
Url(site_id, name) ==
    CASE site_id = 1 /\ name = "c1" -> "u1c1"
      [] site_id = 2 /\ name = "c1" -> "u2c1"
      [] site_id = 3 /\ name = "c1" -> "u3c1"
      [] OTHER -> "u0"

InfoHash(url) ==
    CASE url = "u1c1" -> "h1"
      [] url = "u2c1" -> "x2c1"
      [] url = "u3c1" -> "x3c1"
      [] OTHER -> "x0"

TrackerOf(site_id) == <<"t", ".">> \o SiteById(SiteRegistry, site_id).domain

HasHash(torrents, hash) == \E i \in 1..Len(torrents) : torrents[i].hash = hash

EngineAdd(torrents, source_torrent, match, call, e) ==
    LET hash == InfoHash(call.content)
        new == [hash |-> hash, name |-> source_torrent.name, state |-> e.state,
                size |-> match.size, save_path |-> call.savepath,
                tags |-> TagStr(call.tags), category |-> call.category,
                tracker |-> TrackerOf(match.site_id)]
    IN  IF e.add # "ok" \/ HasHash(torrents, hash) THEN torrents
        ELSE Append(torrents, new)

\* delete_torrents(ids, delete_file=True) on the engine
EngineDelete(torrents, deletes, delete_raises) ==
    IF deletes = <<>> \/ delete_raises THEN torrents
    ELSE FilterSeq(LAMBDA t : ~InList(t.hash, deletes[1].ids), torrents)

\* what get_torrents() returns to the verifier: e.listing is "list", "none"
\* (an empty or missing result) or "raise"; with e.visible FALSE the engine
\* does not list the torrent just added yet
EngineListing(torrents, call, e) ==
    [raised |-> e.listing = "raise",
     torrents |-> IF e.listing # "list" THEN <<>>
                  ELSE IF e.visible THEN torrents
                  ELSE FilterSeq(LAMBDA t : t.hash # InfoHash(call.content), torrents)]

\* a placement that runs the verifier after a failed add as well
_add_torrent_to_downloader_always_verified(source_torrent, match, c, have_helper, torrents, e) ==
    LET none == [ok |-> FALSE, adds |-> <<>>, monitored |-> FALSE,
                 listing |-> [raised |-> FALSE, torrents |-> <<>>],
                 deletes |-> <<>>, tags |-> source_torrent.tags, engine |-> torrents]
        tags == push_tags(source_torrent.tags)
        tags_after == IF source_torrent.tags.kind = "list" THEN TagList(tags)
                      ELSE source_torrent.tags
        call == IF c.enable_split_mode
                THEN _add_torrent_split_mode(match.torrent_url, source_torrent.save_path,
                                             source_torrent.category, tags)
                ELSE _add_torrent_default_mode(match.torrent_url, source_torrent.save_path,
                                               source_torrent.category, tags)
        added == EngineAdd(torrents, source_torrent, match, call, e)
        listing == EngineListing(added, call, e)
        verdict == _monitor_torrent_status(listing, match.torrent_url, e.delete_raises)
    IN  IF match.torrent_url = "" THEN none
        ELSE IF ~have_helper THEN none
        ELSE [ok |-> e.add = "ok" /\ verdict.ok, adds |-> <<call>>, monitored |-> TRUE,
              listing |-> listing, deletes |-> verdict.deletes, tags |-> tags_after,
              engine |-> EngineDelete(added, verdict.deletes, e.delete_raises)]

\* The result holds: ok, the value returned; adds, the add_torrent calls made;
\* monitored, whether the verifier ran; listing, what it read; deletes, the
\* delete calls made; tags, the source record's tag value afterwards (a tag
\* list is extended in place by tags.append); engine, the engine's list.
_add_torrent_to_downloader(source_torrent, match, c, have_helper, torrents, e) ==
    LET none == [ok |-> FALSE, adds |-> <<>>, monitored |-> FALSE,
                 listing |-> [raised |-> FALSE, torrents |-> <<>>],
                 deletes |-> <<>>, tags |-> source_torrent.tags, engine |-> torrents]
        tags == push_tags(source_torrent.tags)
        tags_after == IF source_torrent.tags.kind = "list" THEN TagList(tags)
                      ELSE source_torrent.tags
        call == IF c.enable_split_mode
                THEN _add_torrent_split_mode(match.torrent_url, source_torrent.save_path,
                                             source_torrent.category, tags)
                ELSE _add_torrent_default_mode(match.torrent_url, source_torrent.save_path,
                                               source_torrent.category, tags)
        added == EngineAdd(torrents, source_torrent, match, call, e)
        listing == EngineListing(added, call, e)
        verdict == _monitor_torrent_status(listing, match.torrent_url, e.delete_raises)
    IN  IF match.torrent_url = "" THEN none
        ELSE IF ~have_helper THEN none
        ELSE IF e.add # "ok"
             THEN [none EXCEPT !.adds = <<call>>, !.tags = tags_after]
        ELSE [ok |-> verdict.ok, adds |-> <<call>>, monitored |-> TRUE,
              listing |-> listing, deletes |-> verdict.deletes, tags |-> tags_after,
              engine |-> EngineDelete(added, verdict.deletes, e.delete_raises)]

-----------------------------------------------------------------------------
(* Plugin initialisation: init_plugin, __update_config, _clear_cache       *)

\* lines 81-83: a tag string from the form is split, stripped, blanks dropped
parse_exclude_tags(value) ==
    IF value.kind = "str"
    THEN FilterSeq(LAMBDA t : t # <<>>, MapSeq(Strip, Split(value.v, ",")))
    ELSE value.v

\* lines 75-89: every attribute is assigned from the config, _clear_cache too
assign_config(config) ==
    [enabled |-> config.enabled, cron |-> config.cron, onlyonce |-> config.onlyonce,
     notify |-> config.notify, downloader |-> config.downloader,
     target_sites |-> config.target_sites,
     exclude_tags |-> parse_exclude_tags(config.exclude_tags),
     size_tolerance |-> config.size_tolerance,
     enable_split_mode |-> config.enable_split_mode,
     search_cooldown_min |-> config.search_cooldown_min,
     search_cooldown_max |-> config.search_cooldown_max,
     max_retry |-> config.max_retry,
     clear_cache |-> IF config.clear_cache THEN "true" ELSE "false"]

\* bool(self._clear_cache): the method object is truthy
Truthy(attr) == attr # "false"

\* self._clear_cache(): only the method can be called; calling a bool raises
\* TypeError
Callable(attr) == attr = "method"

\* lines 486-494, the method: the stored cache becomes two empty maps
_clear_cache(stored) == <<EmptyCache>>

\* lines 133-147: the config dict written by update_config
__update_config(a) ==
    [enabled |-> a.enabled, cron |-> a.cron, onlyonce |-> a.onlyonce,
     notify |-> a.notify, downloader |-> a.downloader,
     target_sites |-> a.target_sites, exclude_tags |-> TagList(a.exclude_tags),
     size_tolerance |-> a.size_tolerance,
     enable_split_mode |-> a.enable_split_mode,
     search_cooldown_min |-> a.search_cooldown_min,
     search_cooldown_max |-> a.search_cooldown_max,
     max_retry |-> a.max_retry, clear_cache |-> FALSE]

\* init_plugin(config) for a config dict.  saved is the configuration the
\* host holds (the dict it passes), stored the plugin data 'cache'.  The
\* result holds raised (an exception left init_plugin) and the new values.
init_plugin(config, stored, have_helper) ==
    LET a == assign_config(config)
        \* lines 92-95
        clearing == Truthy(a.clear_cache)
        raised == clearing /\ ~Callable(a.clear_cache)
        a1 == IF clearing /\ ~raised THEN [a EXCEPT !.clear_cache = "false"] ELSE a
        stored1 == IF clearing /\ ~raised THEN _clear_cache(stored) ELSE stored
        saved1 == IF clearing /\ ~raised THEN __update_config(a1) ELSE config
        \* lines 98-121
        starting == a1.enabled \/ a1.onlyonce
        a2 == IF starting /\ a1.onlyonce THEN [a1 EXCEPT !.onlyonce = FALSE] ELSE a1
    IN  IF raised
        THEN [raised |-> TRUE, cfg |-> a, cache |-> stored, saved |-> config,
              helpers |-> have_helper, job |-> FALSE]
        ELSE [raised |-> FALSE, cfg |-> a2, cache |-> stored1,
              saved |-> IF starting /\ a1.onlyonce THEN __update_config(a2) ELSE saved1,
              helpers |-> have_helper \/ starting,
              job |-> starting /\ a1.onlyonce]

-----------------------------------------------------------------------------
(* Spec: the plugin, its host and the engine *)

FormConfig ==
    [enabled |-> TRUE, cron |-> "0 2 * * *", onlyonce |-> FALSE, notify |-> TRUE,
     downloader |-> "qb", target_sites |-> <<1, 2, 3>>, exclude_tags |-> TagStr(<<>>),
     size_tolerance |-> [num |-> 1, den |-> 100], enable_split_mode |-> FALSE,
     search_cooldown_min |-> DefaultCooldownMin,
     search_cooldown_max |-> DefaultCooldownMax,
     max_retry |-> 1, clear_cache |-> FALSE]

\* the configurations the operator submits
Configs ==
    { FormConfig,
      [FormConfig EXCEPT !.max_retry = 2, !.notify = FALSE, !.enable_split_mode = TRUE,
                         !.onlyonce = TRUE],
      [FormConfig EXCEPT !.target_sites = <<1>>],
      [FormConfig EXCEPT !.clear_cache = TRUE] }

\* the engine's list when the plugin is constructed: a completed torrent of
\* site 1, a completed torrent of an unregistered tracker and an unrelated
\* torrent that is fetching its metadata
Inventory ==
    << Torrent("h1", "stalledUP", TagList(<<TagHD>>), <<"t", ".", "a">>),
       Torrent("h2", "seeding", TagStr(<<"n", "r">>), <<"t">>),
       Torrent("u", "metaDL", TagStr(<<>>), <<"t">>) >>

\* the values get_form hands to the host for a plugin never configured
FormDefaults ==
    [FormConfig EXCEPT !.enabled = FALSE, !.downloader = "", !.target_sites = <<>>,
                       !.exclude_tags = TagList(<<>>), !.max_retry = DefaultMaxRetry]

Init ==
    /\ cfg = DefaultCfg
    /\ savedConfig = FormDefaults
    /\ helpers = FALSE
    /\ job = FALSE
    /\ cache = <<>>
    /\ history = <<>>
    /\ engine = Inventory
    /\ run = IdleRun
    /\ last = NoOp
    /\ now = 0
    /\ parser \in {"source", "site"}

Running == run.pc \notin {"idle", "done"}

\* the host stores the submitted configuration and calls init_plugin with it
InitPlugin(config) ==
    /\ ~Running
    /\ LET r == init_plugin(config, cache, helpers)
       IN  /\ cfg' = r.cfg
           /\ cache' = r.cache
           /\ savedConfig' = r.saved
           /\ helpers' = r.helpers
           /\ job' = r.job
           /\ last' = [op |-> "init_plugin", clear_cache |-> config.clear_cache,
                       starting |-> config.enabled \/ config.onlyonce,
                       raised |-> r.raised, before |-> cache]
    /\ UNCHANGED <<history, engine, run, now, parser>>

Title(chars) ==
    [found |-> TRUE, title |-> chars, year |-> <<>>, season |-> <<>>,
     episode |-> <<>>, resolution |-> <<>>]

Candidate(site_id, name, size, url) ==
    [id |-> url, title |-> name, size |-> size, url |-> url]

\* what a site answers to the search for a torrent of this name: an error, or
\* a page listing one candidate that differs too much in size and, for the
\* release c1, which every site carries, one within the tolerance
ResponseKinds == {"error", "page"}

Response(kind, site_id, name) ==
    IF kind = "error" THEN [status_code |-> 500, text |-> <<>>]
    ELSE [status_code |-> HttpOK,
          text |-> << Candidate(site_id, name, SourceSize + 10486, Url(site_id, name)) >>
                   \o (IF name = "c1"
                       THEN << Candidate(site_id, name, SourceSize - 10485,
                                         Url(site_id, name)) >>
                       ELSE <<>>)]

SeqRange(xs) == { xs[i] : i \in 1..Len(xs) }

\* what the collaborators return for one torrent during a run: the
\* recognition of its save path, the parse of its name, the answer of each
\* site queried for it.  Either the name parses to a title and the sites
\* answer, or nothing is recognised, or the path is recognised as a media
\* identity without a title; in the last two cases no site is queried.
TorrentInputs(torrent) ==
    LET sites == SeqRange(torrent.filtered_target_sites)
    IN  [media_info : {NoMedia}, meta : {Title(<<"m">>)},
         kinds : [sites -> ResponseKinds]]
        \cup [media_info : {NoMedia}, meta : {Title(<<>>)},
              kinds : [sites -> {"error"}]]
        \cup [media_info : {Title(<<>>)}, meta : {Title(<<"m">>)},
              kinds : [sites -> {"error"}]]

\* one input per filtered torrent, by hash
RunInputs(filtered) ==
    { in \in [{ filtered[i].hash : i \in 1..Len(filtered) } ->
                  UNION { TorrentInputs(filtered[i]) : i \in 1..Len(filtered) }] :
        \A i \in 1..Len(filtered) : in[filtered[i].hash] \in TorrentInputs(filtered[i]) }

\* lines 185-196: the positions in filtered of the torrents with metadata,
\* each with its metadata
RECURSIVE with_metadata(_, _, _)
with_metadata(filtered, ti, in) ==
    IF ti > Len(filtered) THEN <<>>
    ELSE LET torrent == filtered[ti]
             metadata == _extract_metadata(torrent, in[torrent.hash].media_info,
                                           in[torrent.hash].meta)
         IN  (IF metadata.found THEN <<[ti |-> ti, data |-> metadata.data]>> ELSE <<>>)
             \o with_metadata(filtered, ti + 1, in)

ResponsesFor(torrent, in) ==
    [site_id \in SeqRange(torrent.filtered_target_sites) |->
        Response(in[torrent.hash].kinds[site_id], site_id, torrent.name)]

\* lines 205-216 and 228-232: the (torrent, match) pairs in push order
RECURSIVE matched_pairs(_, _, _, _, _)
matched_pairs(filtered, metas, in, c, mode) ==
    IF metas = <<>> THEN <<>>
    ELSE LET torrent == filtered[Head(metas).ti]
             matches == _search_and_validate(torrent, Head(metas).data,
                                             ResponsesFor(torrent, in), c, mode)
         IN  MapSeq(LAMBDA m : [ti |-> Head(metas).ti, match |-> m], matches)
             \o matched_pairs(filtered, Tail(metas), in, c, mode)

RECURSIVE search_calls(_, _)
search_calls(filtered, metas) ==
    IF metas = <<>> THEN <<>>
    ELSE SearchCalls(filtered[Head(metas).ti], Head(metas).data)
         \o search_calls(filtered, Tail(metas))

\* a check that accepts an empty target-site list
configured_downloader_only(c) == c.downloader # ""

\* lines 156-162: the run goes on only with a downloader and target sites
configured(c) == c.downloader # "" /\ c.target_sites # <<>>

\* _cross_seed_task, lines 153-222: configuration check, load, scan, filter,
\* metadata, search.  It is entered by the run-once job or by the service
\* get_service registers.
RunStart ==
    /\ ~Running
    /\ \E by_job \in BOOLEAN :
        /\ IF by_job THEN job ELSE cfg.enabled /\ cfg.cron # ""
        /\ job' = IF by_job THEN FALSE ELSE job
    /\ \E listed \in BOOLEAN :
        LET begun == [IdleRun EXCEPT !.pc = "done"]
            ledger == _load_cache(cache)
            torrents == _scan_torrents(cfg, helpers, IF listed THEN engine ELSE <<>>)
            filtered == _filter_torrents(torrents, ledger, cfg)
        IN  \E in \in RunInputs(filtered) :
            LET metas == with_metadata(filtered, 1, in)
                pairs == matched_pairs(filtered, metas, in, cfg, parser)
            IN  run' = IF ~configured(cfg) THEN begun
                       ELSE [begun EXCEPT !.loaded = TRUE,
                                          !.listed = cfg.downloader # "" /\ helpers,
                                          !.ledger = ledger, !.torrents = torrents,
                                          !.filtered = filtered, !.metas = metas,
                                          !.searches = search_calls(filtered, metas),
                                          !.pairs = pairs,
                                          !.pc = IF pairs = <<>> THEN "done" ELSE "push"]
    /\ last' = [op |-> "run"]
    /\ UNCHANGED <<cfg, savedConfig, helpers, cache, history, engine, now, parser>>

\* what the engine does with an add and what it shows the verifier
PushEnvs ==
    { [add |-> "ok", state |-> state, listing |-> listing,
       visible |-> visible, delete_raises |-> delete_raises] :
        state \in {"downloading", "checkingUP"},
        listing \in {"list", "none", "raise"}, visible \in BOOLEAN,
        delete_raises \in BOOLEAN }
    \cup
    { [add |-> add, state |-> "checkingUP", listing |-> "list",
       visible |-> TRUE, delete_raises |-> FALSE] : add \in {"reject", "raise"} }

StatusSuccess == "success"
StatusFailure == "failure"
ReasonPushFailed == "push failed"

HistoryRecord(torrent, match, status, time) ==
    [torrent_name |-> torrent.name, source_site |-> torrent.source_site,
     target_site |-> match.site_name, status |-> status, timestamp |-> time]

\* a loop that leaves the remaining pairs alone after a success
next_pair_until_success(idx, ok, pairs) == IF ok THEN Len(pairs) + 1 ELSE idx + 1

\* a loop that gives a torrent up once a failure has been recorded for it
next_pair_until_failure(idx, ok, pairs) == IF ok THEN idx + 1 ELSE Len(pairs) + 1

\* lines 228-232: the loops go on to the next match, then to the next
\* result, whatever the push returned
next_pair(idx, ok, pairs) == idx + 1

\* lines 232-272: one iteration of the push loop
PushPair ==
    /\ run.pc = "push"
    /\ run.idx <= Len(run.pairs)
    /\ \E e \in PushEnvs :
        LET pair == run.pairs[run.idx]
            torrent == run.filtered[pair.ti]
            match == pair.match
            r == _add_torrent_to_downloader(torrent, match, cfg, helpers, engine, e)
        IN  /\ engine' = r.engine
            /\ cache' = IF r.ok
                        THEN << _update_success_cache(cache, torrent.hash,
                                    torrent.source_site, <<match.site_id>>, now) >>
                        ELSE << _update_failed_cache(cache, torrent.hash,
                                    torrent.source_site, ReasonPushFailed, now) >>
            /\ history' = _save_history(history,
                              HistoryRecord(torrent, match,
                                  IF r.ok THEN StatusSuccess ELSE StatusFailure, now))
            /\ run' = [run EXCEPT !.filtered[pair.ti].tags = r.tags,
                                  !.idx = next_pair(@, r.ok, run.pairs),
                                  !.success_count = IF r.ok THEN @ + 1 ELSE @,
                                  !.failed_count = IF r.ok THEN @ ELSE @ + 1,
                                  !.adds = @ \o MapSeq(LAMBDA call :
                                               [hash |-> torrent.hash, call |-> call],
                                               r.adds),
                                  !.deletes = @ \o r.deletes]
            /\ last' = [op |-> "push", hash |-> torrent.hash, site_id |-> match.site_id,
                        added |-> IF r.adds # <<>> /\ e.add = "ok"
                                  THEN InfoHash(match.torrent_url) ELSE "",
                        monitored |-> r.monitored, listing |-> r.listing,
                        ok |-> r.ok, deletes |-> r.deletes,
                        delete_raised |-> r.deletes # <<>> /\ e.delete_raises]
    /\ UNCHANGED <<cfg, savedConfig, helpers, job, now, parser>>

\* a summary that is sent only when some push succeeded
summary_on_success(c, success_count, failed_count) ==
    IF c.notify /\ success_count > 0
    THEN << [success_count |-> success_count, failed_count |-> failed_count] >>
    ELSE <<>>

\* lines 277-278 and 971-985: the notifications sent at the end of the loop
summary(c, success_count, failed_count) ==
    IF c.notify /\ (success_count > 0 \/ failed_count > 0)
    THEN << [success_count |-> success_count, failed_count |-> failed_count] >>
    ELSE <<>>

\* lines 274-278: after the last pair, the summary notification
FinishRun ==
    /\ run.pc = "push"
    /\ run.idx > Len(run.pairs)
    /\ LET sent == summary(cfg, run.success_count, run.failed_count)
       IN  /\ run' = [run EXCEPT !.pc = "done", !.notified = @ + Len(sent)]
           /\ last' = [op |-> "finish", sent |-> sent]
    /\ UNCHANGED <<cfg, savedConfig, helpers, job, cache, history, engine, now, parser>>

Next ==
    \/ \E config \in Configs : InitPlugin(config)
    \/ RunStart
    \/ PushPair
    \/ FinishRun

Spec == Init /\ [][Next]_vars

-----------------------------------------------------------------------------
(* SpecHistory: _save_history called again and again; the record appended  *)
(* carries the clock value as its timestamp and the clock advances         *)

InitHistory ==
    /\ cfg = DefaultCfg
    /\ savedConfig = FormDefaults
    /\ helpers = FALSE
    /\ job = FALSE
    /\ cache = <<>>
    /\ history = <<>>
    /\ engine = <<>>
    /\ run = IdleRun
    /\ last = NoOp
    /\ now = 0
    /\ parser = "source"

SaveHistory ==
    /\ now < MaxAppends
    /\ history' = _save_history(history,
                      [torrent_name |-> "c1", source_site |-> 1, target_site |-> "S2",
                       status |-> IF now % 3 = 0 THEN StatusFailure ELSE StatusSuccess,
                       timestamp |-> now])
    /\ now' = now + 1
    /\ last' = [op |-> "save_history"]
    /\ UNCHANGED <<cfg, savedConfig, helpers, job, cache, engine, run, parser>>

NextHistory == SaveHistory

SpecHistory == InitHistory /\ [][NextHistory]_vars

-----------------------------------------------------------------------------
(* Properties of the history store *)

\* C8: after any number of _save_history calls the stored history holds at
\* most 100 records, and they are the most recent min(n, 100) records in the
\* order they were appended (the oldest are the ones evicted).
C8_HistoryKeepsMostRecent ==
    /\ Len(history) <= 100
    /\ Len(history) = (IF now <= 100 THEN now ELSE 100)
    /\ \A i \in 1..Len(history) :
           history[i].timestamp = now - Len(history) + i - 1

\* more than 100 records were appended and the oldest ones are gone
C8_Witness ==
    /\ last.op = "save_history"
    /\ now > 100
    /\ Len(history) = 100
    /\ history[1].timestamp > 0

-----------------------------------------------------------------------------
(* Properties of the inventory filter *)

Spaces(n) == [i \in 1..n |-> " "]

\* a tag value carries a tag: a tag list holds it; a tag string has it as
\* one of its comma-separated entries, blanks around the entry aside
CarriesTag(tags, tag) ==
    IF tags.kind = "list" THEN \E i \in 1..Len(tags.v) : tags.v[i] = tag
    ELSE \E a \in 1..(Len(tags.v) + 1), b \in 0..Len(tags.v) :
            /\ a = 1 \/ tags.v[a - 1] = ","
            /\ b = Len(tags.v) \/ tags.v[b + 1] = ","
            /\ \A k \in a..b : tags.v[k] # ","
            /\ \E l, r \in 0..Len(tags.v) :
                   SubSeq(tags.v, a, b) = Spaces(l) \o tag \o Spaces(r)

InOutput(hash) == \E j \in 1..Len(run.filtered) : run.filtered[j].hash = hash

\* C9: a torrent that carries at least one of the configured exclude tags is
\* never in the output of _filter_torrents, whatever the success and failure
\* maps hold, whether its tags are a list or a comma-separated string.
C9_ExcludeTagDropsTorrent ==
    run.pc = "filtered" =>
        \A i \in 1..Len(engine) :
            (\E k \in 1..Len(cfg.exclude_tags) :
                 CarriesTag(engine[i].tags, cfg.exclude_tags[k]))
            => ~InOutput(engine[i].hash)

\* a completed torrent with the exclude tag inside a padded tag string, in
\* neither map, is dropped while the other torrent passes
C9_Witness ==
    /\ run.pc = "filtered"
    /\ Len(engine) = 2
    /\ engine[1].tags = TagStr(<<" ", "n", "r", " ", ",", "h", "d">>)
    /\ cfg.exclude_tags = <<TagNoReseed>>
    /\ "h1" \notin DOMAIN run.ledger.success
    /\ "h1" \notin DOMAIN run.ledger.failed
    /\ Len(run.torrents) = 2
    /\ ~InOutput("h1")
    /\ InOutput("h2")

\* the run's locals belong to the present configuration: no init_plugin
\* came after the run
InRun == last.op \in {"run", "push", "finish"}

\* the torrent of a hash among the scanned torrents
Scanned(hash) == \E i \in 1..Len(run.torrents) : run.torrents[i].hash = hash

\* the registered site a scanned torrent came from, 0 when none matches
SourceSiteOf(hash) ==
    LET i == CHOOSE k \in 1..Len(run.torrents) : run.torrents[k].hash = hash
        sites == { k \in 1..Len(SiteRegistry) :
                     /\ SiteRegistry[k].domain # <<>>
                     /\ StrContains(SiteRegistry[k].domain, run.torrents[i].tracker) }
    IN  IF run.torrents[i].tracker = <<>> \/ sites = {} THEN 0
        ELSE SiteRegistry[CHOOSE k \in sites : \A m \in sites : k <= m].id

\* C10: a torrent in the output of _filter_torrents whose source site was
\* resolved does not have that site among its filtered_target_sites, even
\* when the site is configured as a target; no search and no push goes to a
\* torrent's own source site; a torrent left without an eligible target site
\* is not in the output.
C10_OwnSourceSiteExcluded ==
    InRun =>
        /\ \A j \in 1..Len(run.filtered) :
               LET torrent == run.filtered[j]
               IN  /\ torrent.source_site = SourceSiteOf(torrent.hash)
                   /\ torrent.filtered_target_sites # <<>>
                   /\ torrent.source_site # 0 =>
                          ~InList(torrent.source_site, torrent.filtered_target_sites)
        /\ \A i \in 1..Len(run.searches) :
               run.searches[i].site_id # SourceSiteOf(run.searches[i].hash)
        /\ \A i \in 1..Len(run.pairs) :
               run.pairs[i].match.site_id
                   # SourceSiteOf(run.filtered[run.pairs[i].ti].hash)
        /\ last.op = "push" => last.site_id # SourceSiteOf(last.hash)
        /\ \A i \in 1..Len(run.torrents) :
               (\A k \in 1..Len(cfg.target_sites) :
                    cfg.target_sites[k] = SourceSiteOf(run.torrents[i].hash))
               => ~InOutput(run.torrents[i].hash)

\* the torrent of site 1 was pushed to another site while site 1 is a
\* configured target
C10_Witness ==
    /\ last.op = "push"
    /\ last.hash = "h1"
    /\ SourceSiteOf("h1") = 1
    /\ InList(1, cfg.target_sites)
    /\ \E j \in 1..Len(run.filtered) :
           /\ run.filtered[j].hash = "h1"
           /\ run.filtered[j].filtered_target_sites = <<2, 3>>
    /\ Len(run.searches) >= 2

-----------------------------------------------------------------------------
(* Properties of the ledger *)

Added(hash) == \E i \in 1..Len(run.adds) : run.adds[i].hash = hash

Searched(hash) == \E i \in 1..Len(run.searches) : run.searches[i].hash = hash

\* C1: a torrent whose hash is in the success map when a run starts is
\* dropped by the filter of that run and the run makes no add_torrent call
\* for it, whatever the failure map holds for it; the success map keeps the
\* hash, so the same holds in every later run.
C1_SuccessExcluded ==
    /\ run.pc # "idle" =>
           \A h \in DOMAIN run.ledger.success :
               ~InOutput(h) /\ ~Searched(h) /\ ~Added(h)
    /\ InRun =>
           DOMAIN run.ledger.success \subseteq DOMAIN _load_cache(cache).success

\* a run that scanned a torrent recorded both as a success and as a failure
\* dropped it and went on with the other torrent
C1_Witness ==
    /\ last.op = "run"
    /\ "h1" \in DOMAIN run.ledger.success
    /\ "h1" \in DOMAIN run.ledger.failed
    /\ run.ledger.failed["h1"].retry_count < cfg.max_retry
    /\ Scanned("h1")
    /\ ~InOutput("h1")
    /\ InOutput("h2")
    /\ Searched("h2")

\* C2: a torrent whose failure entry has retry_count >= max_retry when a run
\* starts is dropped by the filter of that run, so the run makes no search
\* and no push for it; the entry stays and its retry_count never drops.
C2_RetryExhaustedExcluded ==
    /\ InRun =>
           \A h \in DOMAIN run.ledger.failed :
               run.ledger.failed[h].retry_count >= cfg.max_retry
               => ~InOutput(h) /\ ~Searched(h) /\ ~Added(h)
    /\ InRun =>
           \A h \in DOMAIN run.ledger.failed :
               /\ h \in DOMAIN _load_cache(cache).failed
               /\ _load_cache(cache).failed[h].retry_count
                      >= run.ledger.failed[h].retry_count

\* a run that scanned a torrent with an exhausted failure entry, not recorded
\* as a success, dropped it and went on with the other torrent
C2_Witness ==
    /\ last.op = "run"
    /\ "h1" \in DOMAIN run.ledger.failed
    /\ run.ledger.failed["h1"].retry_count >= cfg.max_retry
    /\ "h1" \notin DOMAIN run.ledger.success
    /\ Scanned("h1")
    /\ ~InOutput("h1")
    /\ InOutput("h2")
    /\ Searched("h2")

-----------------------------------------------------------------------------
(* Properties of the cache clear *)

\* C3: when init_plugin is given clear_cache = true, the success map and the
\* failure map are both empty afterwards, so the next filter pass loads an
\* empty ledger.
C3_CacheClearEmptiesLedger ==
    last.op = "init_plugin" /\ last.clear_cache => _load_cache(cache) = EmptyCache

\* C4: after init_plugin handled clear_cache = true the configuration the
\* host holds has clear_cache = false and initialisation went on normally:
\* no exception, helpers created and the run-once job scheduled when asked.
C4_ClearRequestConsumed ==
    last.op = "init_plugin" /\ last.clear_cache =>
        /\ ~last.raised
        /\ savedConfig.clear_cache = FALSE
        /\ last.starting => helpers

-----------------------------------------------------------------------------
(* Properties of the stop-loss verifier *)

\* the state the verifier read for the torrent just added, "" when the list
\* it read does not hold that torrent
AddedState ==
    LET at == { i \in 1..Len(last.listing.torrents) :
                  last.listing.torrents[i].hash = last.added }
    IN  IF at = {} THEN ""
        ELSE Lower(last.listing.torrents[CHOOSE i \in at : TRUE].state)

Verified == last.op = "push" /\ last.monitored

\* C5: when the state read for the torrent just added is downloading, metadl
\* or allocating, the verifier returns failure and makes exactly one delete
\* call, with delete_file = true, for the hash of the torrent just added.
C5_DownloadingDeletesAdded ==
    Verified /\ AddedState \in DownloadingStates /\ ~last.delete_raised =>
        /\ ~last.ok
        /\ last.deletes = << [ids |-> <<last.added>>, delete_file |-> TRUE] >>

\* C6: when the state read for the torrent just added is not a downloading
\* state, the verifier returns success and makes no delete call, whatever
\* else the engine's list holds.
C6_SeedingVerified ==
    Verified /\ AddedState # "" /\ AddedState \notin DownloadingStates =>
        last.ok /\ last.deletes = <<>>

\* C7: when the engine's list cannot be read (an exception, an empty result)
\* or does not hold the torrent just added, the verifier returns success and
\* makes no delete call.
C7_UnlocatedVerified ==
    Verified /\ (last.listing.raised \/ last.listing.torrents = <<>>
                     \/ AddedState = "") =>
        last.ok /\ last.deletes = <<>>

-----------------------------------------------------------------------------
(* SpecSize: _validate_file_size applied to drawn sizes and tolerances      *)

\* sizes in bytes: around the tolerance itself, and around 100 MB
SmallSizes == {0, 1, 2, 10486, 10487}
LargeSizes ==
    {0, 99989514, 99989515, 100000000, 100010300, 100010485, 100010486,
     100020000, 101048576, 101048577}

SizePairs == (SmallSizes \X SmallSizes) \cup (LargeSizes \X LargeSizes)

\* tolerances in MB: 0.01 (the default), 0 and 1
SizeTolerances == { [num |-> 1, den |-> 100], [num |-> 0, den |-> 1],
                    [num |-> 1, den |-> 1] }

InitSize ==
    /\ cfg \in { [DefaultCfg EXCEPT !.size_tolerance = t] : t \in SizeTolerances }
    /\ savedConfig = FormDefaults
    /\ helpers = FALSE
    /\ job = FALSE
    /\ cache = <<>>
    /\ history = <<>>
    /\ engine = <<>>
    /\ run = IdleRun
    /\ last = NoOp
    /\ now = 0
    /\ parser = "source"

ValidateFileSize ==
    /\ \E pair \in SizePairs :
           last' = [op |-> "validate_file_size",
                    source_size |-> pair[1], target_size |-> pair[2],
                    result |-> _validate_file_size(pair[1], pair[2], cfg)]
    /\ UNCHANGED <<cfg, savedConfig, helpers, job, cache, history, engine, run,
                   now, parser>>

NextSize == ValidateFileSize

SpecSize == InitSize /\ [][NextSize]_vars

\* the largest whole number of bytes within a tolerance of num/den MB
ToleranceBytes(t) == (t.num * 1048576) \div t.den

Distance(x, y) == IF x >= y THEN x - y ELSE y - x

\* C11: _validate_file_size is true exactly when both sizes are non-zero and
\* they differ by at most tolerance x 1048576 bytes, the boundary included;
\* with 0.01 MB, (100000000, 100010300) is accepted and (100000000,
\* 100020000) is rejected; a zero size on either side is rejected.
C11_SizeWithinTolerance ==
    last.op = "validate_file_size" =>
        /\ last.result =
               (/\ last.source_size # 0
                /\ last.target_size # 0
                /\ Distance(last.source_size, last.target_size)
                       <= ToleranceBytes(cfg.size_tolerance))
        /\ cfg.size_tolerance = [num |-> 1, den |-> 100] =>
               /\ last.source_size = 100000000 /\ last.target_size = 100010300
                      => last.result
               /\ last.source_size = 100000000 /\ last.target_size = 100020000
                      => ~last.result
               /\ last.source_size = 100000000 /\ last.target_size = 100010485
                      => last.result
               /\ last.source_size = 100000000 /\ last.target_size = 100010486
                      => ~last.result
        /\ last.source_size = 0 \/ last.target_size = 0 => ~last.result

\* two sizes exactly 1 MB apart were accepted under a tolerance of 1 MB
C11_Witness ==
    /\ last.op = "validate_file_size"
    /\ cfg.size_tolerance = [num |-> 1, den |-> 1]
    /\ last.source_size = 101048576
    /\ last.target_size = 100000000
    /\ last.result

-----------------------------------------------------------------------------
(* SpecTitle: _normalize_title applied to drawn titles                      *)

\* the longest drawn title
MaxTitleLen == 4

TitleChars == {"A", "t", "1", " ", "\t", "."}

TitleTheMatrix ==
    <<"T", "h", "e", ".", "M", "a", "t", "r", "i", "x", " ", "(", "1",
        "9", "9", "9", ")", " ", "[", "1", "0", "8", "0", "p", "]", "!",
        "!">>

NormalTheMatrix ==
    <<"t", "h", "e", " ", "m", "a", "t", "r", "i", "x", " ", "1", "9",
        "9", "9", " ", "1", "0", "8", "0", "p">>

TitleInputs ==
    UNION { [1..n -> TitleChars] : n \in 0..MaxTitleLen } \cup {TitleTheMatrix}

InitTitle ==
    /\ cfg = DefaultCfg
    /\ savedConfig = FormDefaults
    /\ helpers = FALSE
    /\ job = FALSE
    /\ cache = <<>>
    /\ history = <<>>
    /\ engine = <<>>
    /\ run = IdleRun
    /\ last \in { [op |-> "title", title |-> title] : title \in TitleInputs }
    /\ now = 0
    /\ parser = "source"

\* the title is normalised, and the result normalised again
NormalizeTitle ==
    /\ last.op = "title"
    /\ last' = [op |-> "normalize_title", title |-> last.title,
                result |-> _normalize_title(last.title),
                again |-> _normalize_title(_normalize_title(last.title))]
    /\ UNCHANGED <<cfg, savedConfig, helpers, job, cache, history, engine, run,
                   now, parser>>

NextTitle == NormalizeTitle

SpecTitle == InitTitle /\ [][NextTitle]_vars

IsAlnum(ch) == LowerChar(ch) \in AlnumLower

\* the letters and digits of a string, lower-cased, in order
AlnumOnly(s) == MapSeq(LowerChar, FilterSeq(IsAlnum, s))

\* the number of maximal runs of letters and digits in a string
WordCount(s) ==
    Cardinality({ i \in 1..Len(s) : IsAlnum(s[i]) /\ (i = 1 \/ ~IsAlnum(s[i - 1])) })

\* C12: _normalize_title returns only a-z, 0-9 and single spaces, without a
\* leading or trailing space; its words are the runs of letters and digits
\* of the input, lower-cased; "The.Matrix (1999) [1080p]!!" gives
\* "the matrix 1999 1080p"; normalising the result again changes nothing.
C12_NormalizedTitle ==
    last.op = "normalize_title" =>
        LET r == last.result
        IN  /\ \A i \in 1..Len(r) : r[i] \in AlnumLower \cup {" "}
            /\ r # <<>> => r[1] # " " /\ r[Len(r)] # " "
            /\ \A i \in 1..(Len(r) - 1) : ~(r[i] = " " /\ r[i + 1] = " ")
            /\ AlnumOnly(r) = AlnumOnly(last.title)
            /\ WordCount(r) = WordCount(last.title)
            /\ last.title = TitleTheMatrix => r = NormalTheMatrix
            /\ last.again = r

\* a title with a capital, a dot and a run of blanks became two words
C12_Witness ==
    /\ last.op = "normalize_title"
    /\ last.title = <<"A", " ", "\t", "1">>
    /\ last.result = <<"a", " ", "1">>

-----------------------------------------------------------------------------
(* Properties of the push loop *)

\* the step is one iteration of the push loop
PushStep == run.pc = "push" /\ run'.pc = "push" /\ run'.idx = run.idx + 1

AttemptOf(i) ==
    [hash |-> run.filtered[run.pairs[i].ti].hash,
     content |-> run.pairs[i].match.torrent_url]

\* C14: within a run one push is attempted for every (torrent, match) pair
\* of the search stage, in order, whatever the earlier pairs returned: the
\* add calls made so far are those of the pairs before the loop position,
\* and when the loop is left every pair has had its call.
C14_EveryPairAttempted ==
    InRun =>
        /\ run.idx <= Len(run.pairs) + 1
        /\ Len(run.adds) = run.idx - 1
        /\ \A i \in 1..Len(run.adds) :
               /\ run.adds[i].hash = AttemptOf(i).hash
               /\ run.adds[i].call.content = AttemptOf(i).content
        /\ run.success_count + run.failed_count = run.idx - 1
        /\ run.pc = "done" => Len(run.adds) = Len(run.pairs)

\* the first push of a run succeeded and the second pair, of the same
\* torrent, was attempted all the same, and failed
C14_Witness ==
    /\ last.op = "push"
    /\ Len(run.pairs) = 2
    /\ run.idx = 3
    /\ Len(history) = 2
    /\ history[1].status = StatusSuccess
    /\ history[2].status = StatusFailure
    /\ run.adds[1].hash = run.adds[2].hash

-----------------------------------------------------------------------------
(* SpecConfig: runs of a plugin initialised with a complete or an           *)
(* incomplete configuration, over a ledger that may hold entries            *)

ConfigInputs ==
    { FormConfig,
      [FormConfig EXCEPT !.downloader = ""],
      [FormConfig EXCEPT !.target_sites = <<>>],
      [FormConfig EXCEPT !.downloader = "", !.target_sites = <<>>, !.onlyonce = TRUE] }

StoredInputs ==
    { <<>>,
      << [success |-> EmptyDict,
          failed |-> [h \in {"h2"} |-> FailedEntry(1)]] >> }

InitConfig ==
    \E config \in ConfigInputs, stored \in StoredInputs :
        LET r == init_plugin(config, stored, FALSE)
        IN  /\ cfg = r.cfg
            /\ savedConfig = r.saved
            /\ helpers = r.helpers
            /\ job = r.job
            /\ cache = r.cache
            /\ history = <<>>
            /\ engine = Inventory
            /\ run = IdleRun
            /\ last = [op |-> "init_plugin", clear_cache |-> FALSE, starting |-> TRUE,
                        raised |-> FALSE, before |-> stored]
            /\ now = 0
            /\ parser = "site"

NextConfig ==
    \/ RunStart
    \/ PushPair
    \/ FinishRun

SpecConfig == InitConfig /\ [][NextConfig]_vars

\* the step enters _cross_seed_task
RunStep == ~Running /\ last'.op = "run"

\* C15: with no downloader or no target sites configured a run ends before
\* it loads the ledger: no engine call, no site search, no write to the
\* ledger or the history and no notification.
C15_UnconfiguredRunDoesNothing ==
    [][RunStep /\ (cfg.downloader = "" \/ cfg.target_sites = <<>>) =>
          /\ run'.pc = "done"
          /\ ~run'.loaded
          /\ ~run'.listed
          /\ run'.searches = <<>>
          /\ run'.adds = <<>>
          /\ run'.deletes = <<>>
          /\ run'.notified = 0
          /\ cache' = cache
          /\ history' = history
          /\ engine' = engine]_vars

\* a run was entered with target sites but no downloader, helpers created
\* and a ledger stored, and ended at once
C15_Witness ==
    /\ last.op = "run"
    /\ cfg.downloader = ""
    /\ cfg.target_sites # <<>>
    /\ helpers
    /\ cache # <<>>
    /\ run.pc = "done"
    /\ ~run.loaded

\* the number of records with a status among the last n history records
RECURSIVE CountLast(_, _, _)
CountLast(records, n, status) ==
    IF n = 0 \/ records = <<>> THEN 0
    ELSE (IF records[Len(records)].status = status THEN 1 ELSE 0)
         + CountLast(SubSeq(records, 1, Len(records) - 1), n - 1, status)

-----------------------------------------------------------------------------
(* Properties of the per-item drops *)

\* the torrent at position j of the filter output has a pair in the run
HasPair(j) == \E i \in 1..Len(run.pairs) : run.pairs[i].ti = j

\* the ledger entries of a hash are those the run loaded
EntriesAsLoaded(h) ==
    LET stored == _load_cache(cache)
    IN  /\ h \in DOMAIN stored.success <=> h \in DOMAIN run.ledger.success
        /\ h \in DOMAIN stored.success => stored.success[h] = run.ledger.success[h]
        /\ h \in DOMAIN stored.failed <=> h \in DOMAIN run.ledger.failed
        /\ h \in DOMAIN stored.failed => stored.failed[h] = run.ledger.failed[h]

\* a history record of the present run bears the name
InRunHistory(name) ==
    \E k \in 1..(run.idx - 1) :
        /\ k <= Len(history)
        /\ history[Len(history) - k + 1].torrent_name = name

\* C17: a torrent that passed the filter and was dropped later in the run (no
\* metadata, no keywords, a failed search, no size-valid match) has no push:
\* its entries in the success map and the failure map stay as loaded and the
\* run appends no history record for it; every ledger or history write of a
\* run belongs to a torrent for which add_torrent was called.  A torrent so
\* dropped passes the filter of the next run that scans it.
C17_DroppedTorrentNotRecorded ==
    /\ [](InRun =>
             /\ \A j \in 1..Len(run.filtered) :
                    ~HasPair(j) =>
                        /\ ~Added(run.filtered[j].hash)
                        /\ EntriesAsLoaded(run.filtered[j].hash)
                        /\ ~InRunHistory(run.filtered[j].name)
             /\ \A j \in 1..Len(run.torrents) :
                    ~Added(run.torrents[j].hash) =>
                        /\ EntriesAsLoaded(run.torrents[j].hash)
                        /\ ~InRunHistory(run.torrents[j].name))
    /\ [][RunStep /\ InRun /\ run'.loaded =>
              \A j \in 1..Len(run.filtered) :
                  ~HasPair(j) =>
                      LET h == run.filtered[j].hash
                      IN  (\E i \in 1..Len(run'.torrents) : run'.torrents[i].hash = h)
                          => \E i \in 1..Len(run'.filtered) : run'.filtered[i].hash = h]_vars

\* a run pushed one torrent and dropped the other after searching for it:
\* the ledger holds nothing for the dropped one
C17_Witness ==
    /\ last.op = "finish"
    /\ run.adds # <<>>
    /\ InOutput("h2")
    /\ Searched("h2")
    /\ ~Added("h2")
    /\ "h2" \notin DOMAIN _load_cache(cache).failed
    /\ "h2" \notin DOMAIN _load_cache(cache).success
    /\ "h1" \in DOMAIN _load_cache(cache).failed

-----------------------------------------------------------------------------
(* Properties of the ledger snapshot *)

HashesOf(torrents) == [i \in 1..Len(torrents) |-> torrents[i].hash]

\* C18: the torrents and pairs a run processes are decided from the ledger
\* as loaded at its start: the filter output is that of the loaded ledger,
\* pushes leave the loaded ledger, the filter output and the pairs as they
\* are, and a hash that reaches the success map or max_retry during the run
\* is still pushed for its remaining pairs; the next run loads what is
\* stored.
C18_LedgerSnapshotDecides ==
    /\ [](InRun /\ run.loaded =>
             /\ HashesOf(run.filtered)
                    = HashesOf(_filter_torrents(run.torrents, run.ledger, cfg))
             /\ run.pc = "done" => Len(run.adds) = Len(run.pairs)
             /\ \A i \in 1..Len(run.adds) :
                    /\ run.adds[i].hash \notin DOMAIN run.ledger.success
                    /\ run.adds[i].hash \in DOMAIN run.ledger.failed =>
                           run.ledger.failed[run.adds[i].hash].retry_count
                               < cfg.max_retry)
    /\ [][PushStep =>
              /\ run'.ledger = run.ledger
              /\ run'.torrents = run.torrents
              /\ run'.pairs = run.pairs
              /\ HashesOf(run'.filtered) = HashesOf(run.filtered)]_vars
    /\ [][RunStep /\ run'.loaded => run'.ledger = _load_cache(cache)]_vars

\* the second pair of a torrent was pushed although the first push of the
\* run had put its hash into the stored success map
C18_Witness ==
    /\ last.op = "push"
    /\ run.idx = 3
    /\ run.adds[1].hash = "h1"
    /\ run.adds[2].hash = "h1"
    /\ history[Len(history) - 1].status = StatusSuccess
    /\ "h1" \in DOMAIN _load_cache(cache).success
    /\ "h1" \notin DOMAIN run.ledger.success

-----------------------------------------------------------------------------
(* Properties of the success entry *)

\* C19: after pushes of a run succeeded for a hash on several target sites,
\* the success entry of the hash lists every site on which a push of the run
\* succeeded.
C19_SuccessEntryListsEverySite ==
    InRun =>
        \A k \in 1..(run.idx - 1) :
            LET record == history[Len(history) - k + 1]
                stored == _load_cache(cache).success
            IN  record.status = StatusSuccess =>
                    \E h \in DOMAIN stored :
                        /\ NameOf(h) = record.torrent_name
                        /\ \E i \in 1..Len(stored[h].target_sites) :
                               SiteById(SiteRegistry, stored[h].target_sites[i]).name
                                   = record.target_site

-----------------------------------------------------------------------------
(* SpecSearch: the site loop of _search_and_validate with its cooldowns     *)

\* the largest cooldown bound drawn, in seconds
MaxCooldown == 3

\* a loop that queries the first site without a cooldown
RECURSIVE search_trace_first_unslept(_, _, _, _)
search_trace_first_unslept(target_sites, c, sleeps, k) ==
    IF target_sites = <<>> THEN <<>>
    ELSE IF c.search_cooldown_min > c.search_cooldown_max \/ sleeps[k] < 0
         THEN << [kind |-> "raise"] >>
    ELSE (IF k = 1 THEN <<>> ELSE << [kind |-> "sleep", seconds |-> sleeps[k]] >>)
         \o << [kind |-> "query", site_id |-> Head(target_sites)] >>
         \o search_trace_first_unslept(Tail(target_sites), c, sleeps, k + 1)

\* lines 659-669: what the loop does, in order, for the sites from the k-th
\* on; sleeps[k] is the value random.randint returns in the k-th iteration.
\* randint raises ValueError on an empty range and time.sleep on a negative
\* duration; the exception leaves _search_and_validate.
RECURSIVE search_trace(_, _, _, _)
search_trace(target_sites, c, sleeps, k) ==
    IF target_sites = <<>> THEN <<>>
    ELSE IF c.search_cooldown_min > c.search_cooldown_max \/ sleeps[k] < 0
         THEN << [kind |-> "raise"] >>
    ELSE << [kind |-> "sleep", seconds |-> sleeps[k]],
            [kind |-> "query", site_id |-> Head(target_sites)] >>
         \o search_trace(Tail(target_sites), c, sleeps, k + 1)

\* lines 643-669: nothing happens without target sites or keywords
search_events(torrent, metadata, c, sleeps) ==
    IF torrent.filtered_target_sites = <<>> THEN <<>>
    ELSE IF _build_search_keywords(metadata) = <<>> THEN <<>>
    ELSE search_trace(torrent.filtered_target_sites, c, sleeps, 1)

CooldownCfgs ==
    { [DefaultCfg EXCEPT !.search_cooldown_min = lo, !.search_cooldown_max = hi] :
        lo \in -1..MaxCooldown, hi \in 0..MaxCooldown }

SearchTargets == { <<2>>, <<2, 3>>, <<3, 1, 2>> }

SearchMetadata ==
    { _extract_from_mediainfo(Title(<<"m">>)), _extract_from_mediainfo(Title(<<>>)) }

InitSearch ==
    /\ cfg \in CooldownCfgs
    /\ savedConfig = FormDefaults
    /\ helpers = TRUE
    /\ job = FALSE
    /\ cache = <<>>
    /\ history = <<>>
    /\ engine = <<>>
    /\ run \in { [IdleRun EXCEPT
                     !.pc = "search",
                     !.filtered = << Torrent("h2", "seeding", TagStr(<<>>), <<"t">>)
                                     @@ [source_site |-> 0,
                                         filtered_target_sites |-> targets] >>,
                     !.metas = << [ti |-> 1, data |-> metadata] >>] :
                   targets \in SearchTargets, metadata \in SearchMetadata }
    /\ last = NoOp
    /\ now = 0
    /\ parser = "source"

\* the values random.randint can return for the iterations of the loop
SleepDraws(c, n) ==
    IF c.search_cooldown_min > c.search_cooldown_max
    THEN { [k \in 1..n |-> 0] }
    ELSE [1..n -> c.search_cooldown_min..c.search_cooldown_max]

SearchTorrent ==
    /\ last.op = "none"
    /\ \E sleeps \in SleepDraws(cfg, Len(run.filtered[1].filtered_target_sites)) :
           last' = [op |-> "search_and_validate",
                    events |-> search_events(run.filtered[1], run.metas[1].data,
                                             cfg, sleeps)]
    /\ UNCHANGED <<cfg, savedConfig, helpers, job, cache, history, engine, run,
                   now, parser>>

NextSearch == SearchTorrent

SpecSearch == InitSearch /\ [][NextSearch]_vars

\* the sites queried, in the order of the queries
QueriedSites(events) ==
    MapSeq(LAMBDA e : e.site_id, FilterSeq(LAMBDA e : e.kind = "query", events))

\* C20: the eligible target sites are queried one after another in list
\* order, and every query, the first included, comes right after its own
\* sleep, whose duration lies in [search_cooldown_min, search_cooldown_max].
C20_CooldownBeforeEveryQuery ==
    last.op = "search_and_validate" =>
        LET events == last.events
            targets == run.filtered[1].filtered_target_sites
            queried == QueriedSites(events)
        IN  /\ Len(queried) <= Len(targets)
            /\ queried = SubSeq(targets, 1, Len(queried))
            /\ \A i \in 1..Len(events) :
                   events[i].kind = "query" =>
                       /\ i > 1
                       /\ events[i - 1].kind = "sleep"
                       /\ events[i - 1].seconds >= cfg.search_cooldown_min
                       /\ events[i - 1].seconds <= cfg.search_cooldown_max
            /\ \A i \in 1..Len(events) :
                   events[i].kind = "sleep" =>
                       i < Len(events) /\ events[i + 1].kind = "query"
            /\ (/\ cfg.search_cooldown_min >= 0
                /\ cfg.search_cooldown_min <= cfg.search_cooldown_max
                /\ _build_search_keywords(run.metas[1].data) # <<>>)
                   => queried = targets

\* three sites were queried in list order, each after a sleep of its own
C20_Witness ==
    /\ last.op = "search_and_validate"
    /\ run.filtered[1].filtered_target_sites = <<3, 1, 2>>
    /\ cfg.search_cooldown_min = 1
    /\ cfg.search_cooldown_max = 3
    /\ last.events = << [kind |-> "sleep", seconds |-> 3],
                        [kind |-> "query", site_id |-> 3],
                        [kind |-> "sleep", seconds |-> 1],
                        [kind |-> "query", site_id |-> 1],
                        [kind |-> "sleep", seconds |-> 2],
                        [kind |-> "query", site_id |-> 2] >>

-----------------------------------------------------------------------------
(* SpecMatch: _search_and_validate applied to drawn site answers            *)

\* the largest number of candidates on a drawn result page
MaxCandidates == 2

\* candidate sizes: the source's own, the farthest within the default
\* tolerance, the nearest beyond it, and a missing size
MatchSizes == {SourceSize, SourceSize + 10485, SourceSize + 10486, 0}

MatchSites == {2, 3}

\* a result page of a site: its k-th row carries the id [site, k]
MatchPages(site_id) ==
    { [k \in 1..n |-> [id |-> [site |-> site_id, k |-> k], title |-> "c2",
                       size |-> sizes[k], url |-> "u0"]] :
        n \in 0..MaxCandidates, sizes \in [1..MaxCandidates -> MatchSizes] }

MatchAnswers(site_id) ==
    { [status_code |-> 500, text |-> <<>>] }
    \cup { [status_code |-> HttpOK, text |-> page] : page \in MatchPages(site_id) }

MatchTargets == { <<2>>, <<2, 3>>, <<3, 2>> }

InitMatch ==
    /\ cfg = [DefaultCfg EXCEPT !.downloader = "qb", !.target_sites = <<2, 3>>,
                                !.clear_cache = "false"]
    /\ savedConfig = FormDefaults
    /\ helpers = TRUE
    /\ job = FALSE
    /\ cache = <<>>
    /\ history = <<>>
    /\ engine = <<>>
    /\ run \in { [IdleRun EXCEPT
                     !.pc = "search",
                     !.filtered = << Torrent("h2", "seeding", TagStr(<<>>), <<"t">>)
                                     @@ [source_site |-> 0,
                                         filtered_target_sites |-> targets] >>,
                     !.metas = << [ti |-> 1,
                                   data |-> _parse_torrent_name(Title(<<"m">>)).data] >>] :
                   targets \in MatchTargets }
    /\ last \in { [op |-> "responses", responses |-> responses] :
                    responses \in { r \in [MatchSites -> UNION { MatchAnswers(site_id) :
                                                               site_id \in MatchSites }] :
                                      \A site_id \in MatchSites :
                                          r[site_id] \in MatchAnswers(site_id) } }
    /\ now = 0
    /\ parser \in {"source", "site"}

\* line 208: the matches of the torrent, the sites answering as drawn
MatchTorrent ==
    /\ last.op = "responses"
    /\ last' = [op |-> "matches", responses |-> last.responses,
                matches |-> _search_and_validate(run.filtered[1], run.metas[1].data,
                                                 last.responses, cfg, parser)]
    /\ UNCHANGED <<cfg, savedConfig, helpers, job, cache, history, engine, run,
                   now, parser>>

NextMatch == MatchTorrent

SpecMatch == InitMatch /\ [][NextMatch]_vars

\* the candidates the parser read from a site's answer
CandidatesOf(responses, site_id) ==
    IF responses[site_id].status_code # HttpOK THEN <<>>
    ELSE ParseResponse(parser, responses[site_id].text,
                       SiteById(SiteRegistry, site_id))

\* the position of a site in a list of distinct sites, 0 when it is not there
PositionOf(site_id, sites) ==
    IF InList(site_id, sites) THEN CHOOSE i \in 1..Len(sites) : sites[i] = site_id
    ELSE 0

SizeValid(source_size, target_size, c) ==
    /\ source_size # 0
    /\ target_size # 0
    /\ Distance(source_size, target_size) <= ToleranceBytes(c.size_tolerance)

\* C21: of every queried site, each candidate within the size tolerance is a
\* match, once, and no other candidate is; the matches of a torrent stand in
\* the order of its target sites, and within a site in the order of the page.
C21_EveryValidCandidateMatches ==
    last.op = "matches" =>
        LET matches == last.matches
            torrent == run.filtered[1]
            targets == torrent.filtered_target_sites
        IN  /\ \A i \in 1..Len(targets) :
                  LET candidates == CandidatesOf(last.responses, targets[i])
                  IN  \A k \in 1..Len(candidates) :
                          Cardinality({ j \in 1..Len(matches) :
                                          /\ matches[j].site_id = targets[i]
                                          /\ matches[j].torrent_id = candidates[k].id
                                          /\ matches[j].size = candidates[k].size })
                              = IF SizeValid(torrent.size, candidates[k].size, cfg)
                                THEN 1 ELSE 0
            /\ \A j \in 1..Len(matches) :
                  /\ InList(matches[j].site_id, targets)
                  /\ \E k \in 1..Len(CandidatesOf(last.responses, matches[j].site_id)) :
                         CandidatesOf(last.responses, matches[j].site_id)[k].id
                             = matches[j].torrent_id
            /\ \A i, j \in 1..Len(matches) :
                  i < j =>
                      \/ PositionOf(matches[i].site_id, targets)
                             < PositionOf(matches[j].site_id, targets)
                      \/ /\ matches[i].site_id = matches[j].site_id
                         /\ matches[i].torrent_id.k < matches[j].torrent_id.k

\* site 3, queried first, listed two candidates within the tolerance and
\* site 2 one beyond it and one within: three matches, site 3's first
C21_Witness ==
    /\ last.op = "matches"
    /\ run.filtered[1].filtered_target_sites = <<3, 2>>
    /\ Len(last.responses[3].text) = 2
    /\ last.responses[3].text[1].size = SourceSize
    /\ last.responses[3].text[2].size = SourceSize + 10485
    /\ Len(last.responses[2].text) = 2
    /\ last.responses[2].text[1].size = SourceSize + 10486
    /\ last.responses[2].text[2].size = SourceSize
    /\ Len(last.matches) = 3
    /\ last.matches[1].torrent_id = [site |-> 3, k |-> 1]
    /\ last.matches[2].torrent_id = [site |-> 3, k |-> 2]
    /\ last.matches[3].torrent_id = [site |-> 2, k |-> 2]

-----------------------------------------------------------------------------
(* SpecKeywords: _build_search_keywords applied to drawn metadata, and the  *)
(* search that follows                                                      *)

\* ' '.join(keywords)
RECURSIVE JoinSpace(_)
JoinSpace(parts) ==
    IF parts = <<>> THEN <<>>
    ELSE IF Len(parts) = 1 THEN Head(parts)
    ELSE Head(parts) \o <<" ">> \o JoinSpace(Tail(parts))

KeywordTitles == { <<>>, <<"m">>, <<"T", ".", "M">>, <<"A", " ", " ", "t">> }

\* what recognition can deliver: a title, a year, a resolution, a season and
\* an episode, each of them possibly missing
KeywordIdentities ==
    { [found |-> TRUE, title |-> title, year |-> year, season |-> season,
       episode |-> episode, resolution |-> resolution] :
        title \in KeywordTitles, year \in {<<>>, <<"1", "9">>},
        season \in {<<>>, <<"1">>, <<"1", "2">>},
        episode \in {<<>>, <<"3">>, <<"1", "0">>},
        resolution \in {<<>>, <<"p">>} }

\* the metadata either tier of _extract_metadata can attach to a torrent
KeywordMetadata ==
    { _extract_from_mediainfo(m) : m \in KeywordIdentities }
    \cup { _parse_torrent_name(m).data :
             m \in { i \in KeywordIdentities : i.title # <<>> } }

\* a completed torrent of site 1 whose release sites 2 and 3 carry
KeywordTorrent ==
    ScanRecord(Torrent("h1", "seeding", TagList(<<>>), <<"t", ".", "a">>))
    @@ [source_site |-> 1, filtered_target_sites |-> <<2, 3>>]

InitKeywords ==
    /\ cfg = [DefaultCfg EXCEPT !.downloader = "qb", !.target_sites = <<2, 3>>,
                                !.clear_cache = "false"]
    /\ savedConfig = FormDefaults
    /\ helpers = TRUE
    /\ job = FALSE
    /\ cache = <<>>
    /\ history = <<>>
    /\ engine = <<>>
    /\ run \in { [IdleRun EXCEPT !.pc = "search",
                                 !.filtered = << KeywordTorrent >>,
                                 !.metas = << [ti |-> 1, data |-> metadata] >>] :
                   metadata \in KeywordMetadata }
    /\ last = NoOp
    /\ now = 0
    /\ parser = "site"

\* lines 649-671: the keyword string of the torrent, the sites queried with
\* it and the matches they give
BuildKeywords ==
    /\ last.op = "none"
    /\ LET torrent == run.filtered[1]
           metadata == run.metas[1].data
           responses == [site_id \in MatchSites |->
                            Response("page", site_id, torrent.name)]
       IN  last' = [op |-> "keywords",
                    keywords |-> JoinSpace(_build_search_keywords(metadata)),
                    queries |-> SearchCalls(torrent, metadata),
                    matches |-> _search_and_validate(torrent, metadata, responses,
                                                     cfg, parser)]
    /\ UNCHANGED <<cfg, savedConfig, helpers, job, cache, history, engine, run,
                   now, parser>>

NextKeywords == BuildKeywords

SpecKeywords == InitKeywords /\ [][NextKeywords]_vars

\* the season or episode number on two digits at least
TwoDigits(x) == IF Len(x) < 2 THEN <<"0">> \o x ELSE x

\* C22: the keyword string is the normalized title, the year, the
\* resolution, S and the season on two digits, E and the episode on two
\* digits, those that are present, with one space between them; with an
\* empty keyword string no site is queried and there is no match.
C22_KeywordsFromNormalizedTitle ==
    last.op = "keywords" =>
        LET metadata == run.metas[1].data
            parts == (IF metadata.normalized_title # <<>>
                      THEN <<metadata.normalized_title>> ELSE <<>>)
                     \o (IF metadata.year # <<>> THEN <<metadata.year>> ELSE <<>>)
                     \o (IF metadata.resolution # <<>>
                         THEN <<metadata.resolution>> ELSE <<>>)
                     \o (IF metadata.season # <<>>
                         THEN <<<<"S">> \o TwoDigits(metadata.season)>> ELSE <<>>)
                     \o (IF metadata.episode # <<>>
                         THEN <<<<"E">> \o TwoDigits(metadata.episode)>> ELSE <<>>)
        IN  /\ last.keywords = JoinSpace(parts)
            /\ last.keywords = <<>> => last.queries = <<>> /\ last.matches = <<>>

-----------------------------------------------------------------------------
(* SpecMetadata: a run from its metadata stage on, for one filtered torrent *)
(* and drawn answers of the recogniser, the name parser and the site        *)

\* what recognize_by_path returns: nothing (or an exception), an identity,
\* an identity without a title
MediaInputs ==
    { NoMedia,
      [Title(<<"p">>) EXCEPT !.year = <<"1", "9">>],
      Title(<<>>) }

\* what MetaInfo reads from the torrent name
MetaInputs ==
    { Title(<<>>),
      [Title(<<>>) EXCEPT !.year = <<"2", "0">>],
      [Title(<<"n">>) EXCEPT !.resolution = <<"p">>] }

MetadataInputs ==
    [save_path : {"", "/data"}, media_info : MediaInputs, meta : MetaInputs,
     kinds : [{2} -> ResponseKinds]]

InitMetadata ==
    /\ cfg = [DefaultCfg EXCEPT !.downloader = "qb", !.target_sites = <<2>>,
                                !.clear_cache = "false"]
    /\ savedConfig = FormDefaults
    /\ helpers = TRUE
    /\ job = FALSE
    /\ cache = <<>>
    /\ history = <<>>
    /\ engine = Inventory
    /\ \E in \in MetadataInputs :
        /\ run = [IdleRun EXCEPT
                     !.pc = "metadata", !.loaded = TRUE, !.listed = TRUE,
                     !.torrents = _scan_torrents(cfg, helpers, engine),
                     !.filtered = << [KeywordTorrent EXCEPT
                                         !.save_path = in.save_path,
                                         !.filtered_target_sites = <<2>>] >>]
        /\ last = [op |-> "inputs", in |-> in]
    /\ now = 0
    /\ parser = "site"

\* lines 185-222: metadata for each filtered torrent, then the search for
\* those that have it
ExtractMetadata ==
    /\ run.pc = "metadata"
    /\ LET in == [h \in {run.filtered[1].hash} |-> last.in]
           metas == with_metadata(run.filtered, 1, in)
           pairs == matched_pairs(run.filtered, metas, in, cfg, parser)
       IN  /\ run' = [run EXCEPT !.metas = metas,
                                 !.searches = search_calls(run.filtered, metas),
                                 !.pairs = pairs,
                                 !.pc = IF pairs = <<>> THEN "done" ELSE "push"]
           /\ last' = [op |-> "metadata", in |-> last.in,
                       result |-> _extract_metadata(run.filtered[1],
                                                    last.in.media_info, last.in.meta)]
    /\ UNCHANGED <<cfg, savedConfig, helpers, job, cache, history, engine, now, parser>>

NextMetadata ==
    \/ ExtractMetadata
    \/ PushPair
    \/ FinishRun

SpecMetadata == InitMetadata /\ [][NextMetadata]_vars

\* the fields of a metadata dict that come from a recognised identity
SameIdentity(data, identity) ==
    /\ data.title = identity.title
    /\ data.year = identity.year
    /\ data.season = identity.season
    /\ data.episode = identity.episode

\* C23: when the torrent has a save path and recognition of the path yields
\* a media identity, the metadata is the path-based one; otherwise it is the
\* name parser's, and None when the parser finds no title.  A torrent without
\* metadata is not searched for and not pushed, and the run writes nothing to
\* the ledger or the history.
C23_TwoTierMetadata ==
    /\ last.op = "metadata" =>
           LET in == last.in
               result == last.result
           IN  /\ (in.save_path # "" /\ in.media_info.found) =>
                      /\ result.found
                      /\ SameIdentity(result.data, in.media_info)
                      /\ result.data.resolution = <<>>
               /\ (in.save_path = "" \/ ~in.media_info.found) =>
                      /\ result.found <=> in.meta.title # <<>>
                      /\ result.found =>
                             /\ SameIdentity(result.data, in.meta)
                             /\ result.data.resolution = in.meta.resolution
               /\ result.found =>
                      /\ Len(run.metas) = 1
                      /\ run.metas[1].data = result.data
               /\ ~result.found => run.metas = <<>> /\ run.pc = "done"
    /\ (run.pc # "metadata" /\ run.metas = <<>>) =>
           /\ run.searches = <<>>
           /\ run.pairs = <<>>
           /\ run.adds = <<>>
           /\ cache = <<>>
           /\ history = <<>>
           /\ engine = Inventory

\* recognition of the path failed and the name gave no title although it gave
\* a year: the torrent left the run
C23_Witness ==
    /\ last.op = "metadata"
    /\ last.in.save_path = "/data"
    /\ ~last.in.media_info.found
    /\ last.in.meta.title = <<>>
    /\ last.in.meta.year # <<>>
    /\ ~last.result.found
    /\ run.pc = "done"
    /\ cache = <<>>

-----------------------------------------------------------------------------
(* SpecPush: the push loop over two drawn matches of one source torrent,    *)
(* with and without a download locator, with and without a downloader       *)

\* the tag value of the source record: a list or a comma-separated string,
\* with and without the cross-seed tag
PushTagInputs ==
    { TagList(<<>>), TagList(<<TagHD>>), TagList(<<TagHD, TagCrossSeed>>),
      TagStr(<<>>), TagStr(<<"h", "d", ",", " ", "X">>),
      TagStr(<<"h", "d", ",", ",", "n", "r">>) }

PushSources ==
    { [KeywordTorrent EXCEPT !.tags = tags, !.save_path = place[1],
                             !.category = place[2]] :
        tags \in PushTagInputs, place \in { <<"/data", "movie">>, <<"/tv", "">> } }

\* a match of the site as _search_site builds it; url "" is a candidate
\* without a download locator
Match(site_id, url) ==
    [site_id |-> site_id, site_name |-> SiteById(SiteRegistry, site_id).name,
     torrent_url |-> url, torrent_id |-> url, title |-> "c1", size |-> SourceSize]

PushPairInputs ==
    { << [ti |-> 1, match |-> Match(2, first)],
         [ti |-> 1, match |-> Match(3, second)] >> :
        first \in {"", "u2c1"}, second \in {"", "u3c1"} }

InitPush ==
    /\ cfg \in { [DefaultCfg EXCEPT !.downloader = "qb", !.target_sites = <<2, 3>>,
                                    !.clear_cache = "false",
                                    !.enable_split_mode = split] :
                   split \in BOOLEAN }
    /\ savedConfig = FormDefaults
    /\ helpers \in BOOLEAN
    /\ job = FALSE
    /\ cache = <<>>
    /\ history = <<>>
    /\ engine = Inventory
    /\ run \in { [IdleRun EXCEPT !.pc = "push", !.loaded = TRUE, !.listed = TRUE,
                                 !.filtered = << source >>, !.pairs = pairs] :
                   source \in PushSources, pairs \in PushPairInputs }
    /\ last = NoOp
    /\ now = 0
    /\ parser = "site"

NextPush ==
    \/ PushPair
    \/ FinishRun

SpecPush == InitPush /\ [][NextPush]_vars

\* the add_torrent call is the one the placement policy of the configuration
\* makes for the source torrent and the match
PlacedBy(call, torrent, match, c) ==
    /\ call.content = match.torrent_url
    /\ call.download_dir = torrent.save_path
    /\ call.savepath = torrent.save_path
    /\ c.enable_split_mode => call.autoTMM = "False" /\ call.paused = "False"
    /\ ~c.enable_split_mode => call.autoTMM = NoKey /\ call.paused = NoKey

\* C24, as stated: every push makes one add_torrent call, that of the policy
\* the split-mode flag selects, with the source torrent's save path as the
\* save directory.
C24_OneAddCallPerPush ==
    [][PushStep =>
          LET pair == run.pairs[run.idx]
              n == Len(run.adds)
          IN  /\ Len(run'.adds) = n + 1
              /\ SubSeq(run'.adds, 1, n) = run.adds
              /\ PlacedBy(run'.adds[n + 1].call, run.filtered[pair.ti],
                          pair.match, cfg)]_vars

\* C24, with its precondition: a push whose match has a download locator,
\* the downloader being available, makes one add_torrent call, that of the
\* policy the split-mode flag selects (split mode: autoTMM false and paused
\* false; default mode: neither set), with the source torrent's save path as
\* the save directory; any other push makes no add_torrent call.
C24_OneAddCallPerPlacement ==
    [][PushStep =>
          LET pair == run.pairs[run.idx]
              n == Len(run.adds)
              placed == pair.match.torrent_url # "" /\ helpers
          IN  /\ Len(run'.adds) = n + (IF placed THEN 1 ELSE 0)
              /\ SubSeq(run'.adds, 1, n) = run.adds
              /\ placed => PlacedBy(run'.adds[n + 1].call, run.filtered[pair.ti],
                                    pair.match, cfg)]_vars

\* in split mode the first match was added into the source's directory /tv
\* with automatic management off; the second, without a locator, was not
C24_Witness ==
    /\ last.op = "push"
    /\ cfg.enable_split_mode
    /\ run.idx = 3
    /\ run.pairs[2].match.torrent_url = ""
    /\ Len(run.adds) = 1
    /\ run.filtered[1].save_path = "/tv"
    /\ run.adds[1].call.savepath = "/tv"
    /\ run.adds[1].call.download_dir = "/tv"
    /\ run.adds[1].call.autoTMM = "False"
    /\ run.adds[1].call.paused = "False"

\* the tags a tag value holds: the entries of a list, or the non-blank
\* pieces of a comma-separated string, stripped
TagsHeld(tags) ==
    IF tags.kind = "str"
    THEN { Strip(piece) : piece \in SeqRange(Split(tags.v, ",")) } \ {<<>>}
    ELSE SeqRange(tags.v)

\* C25: in both modes the tags sent with an add_torrent call are the tags of
\* the source torrent and the cross-seed tag, which occurs in them once,
\* whether the source torrent carried it or not; the category sent is the
\* source torrent's.
C25_CrossSeedTagOnce ==
    [][PushStep /\ Len(run'.adds) = Len(run.adds) + 1 =>
          LET torrent == run.filtered[run.pairs[run.idx].ti]
              call == run'.adds[Len(run'.adds)].call
              sent == Split(call.tags, ",")
          IN  /\ Cardinality({ i \in 1..Len(sent) : sent[i] = TagCrossSeed }) = 1
              /\ SeqRange(sent) = TagsHeld(torrent.tags) \cup {TagCrossSeed}
              /\ call.category = torrent.category]_vars

\* a source torrent tagged "hd,,nr" was pushed twice in default mode: both
\* add calls carried "hd,nr,X" and the category of the source
C25_Witness ==
    /\ last.op = "push"
    /\ ~cfg.enable_split_mode
    /\ run.filtered[1].tags = TagStr(<<"h", "d", ",", ",", "n", "r">>)
    /\ run.filtered[1].category = "movie"
    /\ Len(run.adds) = 2
    /\ \A i \in 1..2 :
           /\ run.adds[i].call.tags = <<"h", "d", ",", "n", "r", ",", "X">>
           /\ run.adds[i].call.category = "movie"

\* C26: a push whose add did not succeed (no download locator, no
\* downloader, the engine rejecting the add or the add call raising) returns
\* failure and the verifier does not run: the engine's list is not read, no
\* delete call is made and the engine keeps its torrents.
C26_FailedAddSkipsVerifier ==
    /\ [](last.op = "push" /\ last.added = "" =>
              /\ ~last.ok
              /\ ~last.monitored
              /\ last.listing = [raised |-> FALSE, torrents |-> <<>>]
              /\ last.deletes = <<>>)
    /\ [][PushStep /\ last'.added = "" =>
              /\ engine' = engine
              /\ run'.deletes = run.deletes
              /\ run'.failed_count = run.failed_count + 1
              /\ run'.success_count = run.success_count]_vars

\* the engine refused the add of a match that had a locator: the pair failed
\* and the torrent that is fetching metadata is still in the engine's list
C26_Witness ==
    /\ last.op = "push"
    /\ helpers
    /\ run.idx = 2
    /\ run.pairs[1].match.torrent_url # ""
    /\ Len(run.adds) = 1
    /\ last.added = ""
    /\ ~last.ok
    /\ ~last.monitored
    /\ engine = Inventory
    /\ HasHash(engine, "u")

-----------------------------------------------------------------------------
(* Properties of the scan *)

\* the engine holds the hash in one of the four completed states, whatever
\* the case of the letters
HeldCompleted(torrents, hash) ==
    \E k \in 1..Len(torrents) :
        /\ torrents[k].hash = hash
        /\ Lower(torrents[k].state) \in {"seeding", "uploading", "stalledup", "completed"}

\* the hashes the run has scanned, filtered, searched for or pushed
HandledHashes(r) ==
    SeqRange(HashesOf(r.torrents)) \cup SeqRange(HashesOf(r.filtered))
    \cup SeqRange(HashesOf(r.searches)) \cup SeqRange(HashesOf(r.adds))
    \cup { r.filtered[r.pairs[i].ti].hash : i \in 1..Len(r.pairs) }

\* C27: the torrents a run scans are torrents the engine holds, at the time
\* of the scan, in state seeding, uploading, stalledup or completed, in any
\* case of the letters; a torrent the engine holds in another state, a
\* downloading one in particular, is not scanned, filtered, searched for or
\* pushed in that run, and a run handles no torrent it did not scan.
C27_OnlyCompletedScanned ==
    /\ [][RunStep =>
              /\ \A h \in HandledHashes(run') : HeldCompleted(engine, h)
              /\ \A k \in 1..Len(engine) :
                     ~HeldCompleted(engine, engine[k].hash)
                         => engine[k].hash \notin HandledHashes(run')]_vars
    /\ [](InRun => HandledHashes(run) \subseteq SeqRange(HashesOf(run.torrents)))
    /\ [][PushStep => run'.torrents = run.torrents]_vars

\* a run scanned the two completed torrents while the engine also held one
\* fetching metadata and a cross-seed added earlier that was downloading
C27_Witness ==
    /\ last.op = "run"
    /\ HashesOf(run.torrents) = <<"h1", "h2">>
    /\ run.torrents[1].name = "c1"
    /\ \E k \in 1..Len(engine) : engine[k].state = "metaDL"
    /\ \E k \in 1..Len(engine) : engine[k].state = "downloading"
    /\ \E k \in 1..Len(engine) : engine[k].state = "stalledUP"

-----------------------------------------------------------------------------
(* SpecFault: runs in which the host's storage, the filter or the notifier  *)
(* raise an exception                                                       *)

\* a handler that leaves the ledger load outside the try block of the task
handler_load_unguarded(point) ==
    CASE point = "load" -> "caller"
      [] point = "filter" -> "task"
      [] point \in {"ledger_load", "ledger_save"} -> "pair"
      [] point = "history" -> "_save_history"
      [] point = "notify" -> "_send_notification"

\* the except clause that catches an exception raised at a point of the run:
\* get_data in _load_cache at line 166 and _filter_torrents at line 177 are
\* inside the try of lines 164-283; get_data and save_data in the ledger
\* updates of lines 238 and 255 are inside the try of lines 233-272;
\* _save_history and _send_notification catch their own (1000, 984)
handler(point) ==
    CASE point \in {"load", "filter"} -> "task"
      [] point \in {"ledger_load", "ledger_save"} -> "pair"
      [] point = "history" -> "_save_history"
      [] point = "notify" -> "_send_notification"

\* the engine's list: the completed torrent of site 1 and the torrent that is
\* fetching its metadata
FaultInventory == << Inventory[1], Inventory[3] >>

InitFault ==
    LET r == init_plugin(FormConfig, <<>>, FALSE)
    IN  /\ cfg = r.cfg
        /\ savedConfig = r.saved
        /\ helpers = r.helpers
        /\ job = r.job
        /\ cache = r.cache
        /\ history = <<>>
        /\ engine = FaultInventory
        /\ run = IdleRun
        /\ last = NoOp
        /\ now = 0
        /\ parser = "site"

\* a run in which loading the ledger or filtering raises: lines 166-177
RunFault ==
    /\ ~Running
    /\ cfg.enabled /\ cfg.cron # ""
    /\ configured(cfg)
    /\ \E point \in {"load", "filter"} :
        /\ run' = [IdleRun EXCEPT
                      !.pc = IF handler(point) = "caller" THEN "raised" ELSE "done",
                      !.loaded = point # "load",
                      !.listed = point # "load" /\ cfg.downloader # "" /\ helpers,
                      !.ledger = IF point = "load" THEN EmptyCache
                                 ELSE _load_cache(cache),
                      !.torrents = IF point = "load" THEN <<>>
                                   ELSE _scan_torrents(cfg, helpers, engine)]
        /\ last' = [op |-> "run_fault", point |-> point]
    /\ UNCHANGED <<cfg, savedConfig, helpers, job, cache, history, engine, now, parser>>

\* the engine's behaviour in the iterations in which the storage raises: the
\* add accepted and verified, or rejected
FaultEnvs ==
    { e \in PushEnvs : /\ e.state = "checkingUP" /\ e.visible /\ ~e.delete_raises
                       /\ e.listing \in {"list", "none"}
                       /\ e.add \in {"ok", "reject"} }

\* one iteration of the push loop in which the storage raises: in the ledger
\* update, before or while it saves (the save may or may not have reached the
\* store), which skips the history record and counts a failure at line 271;
\* or in _save_history, which only loses the record
PushFault ==
    /\ run.pc = "push"
    /\ run.idx <= Len(run.pairs)
    /\ \E e \in FaultEnvs, point \in {"ledger_load", "ledger_save", "history"},
          saved \in BOOLEAN :
        LET pair == run.pairs[run.idx]
            torrent == run.filtered[pair.ti]
            match == pair.match
            r == _add_torrent_to_downloader(torrent, match, cfg, helpers, engine, e)
            updated == IF r.ok
                       THEN << _update_success_cache(cache, torrent.hash,
                                   torrent.source_site, <<match.site_id>>, now) >>
                       ELSE << _update_failed_cache(cache, torrent.hash,
                                   torrent.source_site, ReasonPushFailed, now) >>
            in_pair == handler(point) = "pair"
        IN  /\ (saved <=> point # "ledger_load")
               \/ (point = "ledger_save" /\ ~saved)
            /\ engine' = r.engine
            /\ cache' = IF saved THEN updated ELSE cache
            /\ history' = history
            /\ run' = [run EXCEPT !.filtered[pair.ti].tags = r.tags,
                                  !.idx = next_pair(@, r.ok, run.pairs),
                                  !.success_count = IF r.ok THEN @ + 1 ELSE @,
                                  !.failed_count =
                                      @ + (IF r.ok THEN 0 ELSE 1)
                                        + (IF in_pair THEN 1 ELSE 0),
                                  !.adds = @ \o MapSeq(LAMBDA call :
                                               [hash |-> torrent.hash, call |-> call],
                                               r.adds),
                                  !.deletes = @ \o r.deletes]
            /\ last' = [op |-> "push_fault", point |-> point, hash |-> torrent.hash,
                        ok |-> r.ok, saved |-> saved]
    /\ UNCHANGED <<cfg, savedConfig, helpers, job, now, parser>>

\* the end of the run with the notifier raising in post_message
FinishFault ==
    /\ run.pc = "push"
    /\ run.idx > Len(run.pairs)
    /\ summary(cfg, run.success_count, run.failed_count) # <<>>
    /\ run' = [run EXCEPT !.pc = "done"]
    /\ last' = [op |-> "finish_fault", point |-> "notify"]
    /\ UNCHANGED <<cfg, savedConfig, helpers, job, cache, history, engine, now, parser>>

NextFault ==
    \/ RunStart
    \/ RunFault
    \/ PushPair
    \/ PushFault
    \/ FinishRun
    \/ FinishFault

SpecFault == InitFault /\ [][NextFault]_vars

\* every entry of the old map is in the new map, and is the same there
\* unless it is the entry of the hash
EntriesKept(old, new, hash) ==
    \A h \in DOMAIN old : h \in DOMAIN new /\ (h # hash => new[h] = old[h])

\* C28: an exception raised in a run, by the storage, the filter or the
\* notifier, is caught inside _cross_seed_task: the run ends or goes on to the
\* next pair and nothing reaches the caller.  The step in which it is raised
\* removes nothing from the store: the history keeps its records, the ledger
\* keeps every entry, and the entries of all other hashes are unchanged.
C28_ExceptionsContained ==
    /\ [](run.pc # "raised")
    /\ [][last'.op \in {"run_fault", "finish_fault"} /\ last' # last =>
              /\ run'.pc = "done"
              /\ cache' = cache
              /\ history' = history
              /\ engine' = engine]_vars
    /\ [][last'.op = "push_fault" /\ run' # run =>
              /\ run'.pc = "push"
              /\ run'.idx = run.idx + 1
              /\ history' = history
              /\ EntriesKept(_load_cache(cache).success, _load_cache(cache').success,
                             last'.hash)
              /\ EntriesKept(_load_cache(cache).failed, _load_cache(cache').failed,
                             last'.hash)
              /\ ~last'.saved => cache' = cache]_vars

\* the second pair of a run hit a failing save after the first pair had been
\* recorded: the record and the entry of the first pair are still stored
C28_Witness ==
    /\ last.op = "push_fault"
    /\ last.point = "ledger_save"
    /\ ~last.saved
    /\ run.pc = "push"
    /\ run.idx = 3
    /\ Len(history) = 1
    /\ history[1].torrent_name = "c1"
    /\ "h1" \in DOMAIN _load_cache(cache).failed

-----------------------------------------------------------------------------
(* SpecLedger: the ledger updates of two runs, each update a load of the    *)
(* stored structure followed by a save of the modified one.  The runs are   *)
(* the run-once job of init_plugin and the service of get_service; the      *)
(* scheduler either serializes them or lets them overlap.                   *)

Failure(hash) == [kind |-> "failed", hash |-> hash]
Success(hash) == [kind |-> "success", hash |-> hash]

\* the ledger updates a run makes, in order
RunUpdates ==
    { << Failure("h1") >>, << Failure("h1"), Failure("h1") >>,
      << Failure("h1"), Success("h2") >>, << Success("h2"), Failure("h1") >>,
      << Success("h2") >> }

Workers == {1, 2}

InitLedger ==
    /\ cfg = DefaultCfg
    /\ savedConfig = FormDefaults
    /\ helpers = TRUE
    /\ job = FALSE
    /\ cache = <<>>
    /\ history = <<>>
    /\ engine = <<>>
    /\ run \in { [serialized |-> serialized,
                  worker |-> [w \in Workers |->
                                 [todo |-> todo[w], at |-> "load", begun |-> FALSE,
                                  loaded |-> <<>>]],
                  failures |-> [h \in Hashes |-> 0],
                  successes |-> {}] :
                   serialized \in BOOLEAN, todo \in [Workers -> RunUpdates] }
    /\ last = NoOp
    /\ now = 0
    /\ parser = "source"

\* the run has made its first load and has updates left
InFlight(w) == run.worker[w].begun /\ run.worker[w].todo # <<>>

\* lines 460 and 472: cache = self._load_cache()
LoadLedger(w) ==
    /\ run.worker[w].todo # <<>>
    /\ run.worker[w].at = "load"
    /\ run.serialized => \A v \in Workers \ {w} : ~InFlight(v)
    /\ run' = [run EXCEPT !.worker[w].loaded = cache,
                          !.worker[w].at = "save",
                          !.worker[w].begun = TRUE]
    /\ last' = [op |-> "load", worker |-> w]
    /\ UNCHANGED <<cfg, savedConfig, helpers, job, cache, history, engine, now, parser>>

\* lines 461-466 and 473-484: the loaded structure is modified and saved
SaveLedger(w) ==
    /\ run.worker[w].at = "save"
    /\ LET update == Head(run.worker[w].todo)
           loaded == run.worker[w].loaded
       IN  /\ cache' = IF update.kind = "success"
                       THEN << _update_success_cache(loaded, update.hash, 1, <<2>>, now) >>
                       ELSE << _update_failed_cache(loaded, update.hash, 1,
                                                    ReasonPushFailed, now) >>
           /\ run' = [run EXCEPT
                         !.worker[w].todo = Tail(@),
                         !.worker[w].at = "load",
                         !.failures[update.hash] =
                             IF update.kind = "failed" THEN @ + 1 ELSE @,
                         !.successes =
                             IF update.kind = "success" THEN @ \cup {update.hash} ELSE @]
           /\ last' = [op |-> "save", worker |-> w, update |-> update]
    /\ UNCHANGED <<cfg, savedConfig, helpers, job, history, engine, now, parser>>

NextLedger ==
    \/ \E w \in Workers : LoadLedger(w)
    \/ \E w \in Workers : SaveLedger(w)

SpecLedger == InitLedger /\ [][NextLedger]_vars

\* the stored retry_count of a hash, 0 without a failure entry
StoredRetries(h) ==
    IF h \in DOMAIN _load_cache(cache).failed
    THEN _load_cache(cache).failed[h].retry_count ELSE 0

\* C29: with the runs serialized the store holds every update made: the
\* retry_count of a hash is the number of failures recorded for it and every
\* hash recorded as a success has its success entry.  Overlapping or not, no
\* update adds more than it records.
C29_SerializedUpdatesKept ==
    /\ run.serialized =>
           /\ \A h \in Hashes : StoredRetries(h) = run.failures[h]
           /\ run.successes = DOMAIN _load_cache(cache).success
    /\ \A h \in Hashes : StoredRetries(h) <= run.failures[h]
    /\ DOMAIN _load_cache(cache).success \subseteq run.successes

\* two overlapping runs have finished: the save of one overwrote what the
\* other had saved since its load, so one of the two failures recorded for
\* h1 is missing from its retry_count and h2 has no success entry
C29_Witness ==
    /\ ~run.serialized
    /\ \A w \in Workers : run.worker[w].todo = <<>>
    /\ run.failures["h1"] = 2
    /\ StoredRetries("h1") = 1
    /\ "h2" \in run.successes
    /\ "h2" \notin DOMAIN _load_cache(cache).success

-----------------------------------------------------------------------------
(* Properties of the source record *)

\* C30: pushing a match leaves the record of the source torrent as it was:
\* its tags, save path, category, size and hash, and the fields the filter
\* derived; the cross-seed tag sent with one push is not among the record's
\* tags at the next push unless the source torrent carried it.
C30_SourceRecordUnchanged ==
    [][PushStep =>
          /\ run'.filtered = run.filtered
          /\ \A i \in 1..Len(run.filtered) :
                 /\ run'.filtered[i].tags = run.filtered[i].tags
                 /\ run'.filtered[i].save_path = run.filtered[i].save_path
                 /\ run'.filtered[i].category = run.filtered[i].category
                 /\ run'.filtered[i].size = run.filtered[i].size
                 /\ run'.filtered[i].hash = run.filtered[i].hash]_vars

-----------------------------------------------------------------------------
(* Properties of the retry bound *)

\* the add_torrent calls the run has made for a hash
AddCalls(h) == Cardinality({ i \in 1..Len(run.adds) : run.adds[i].hash = h })

\* C31: with max_retry >= 1 and the runs serialized, a torrent that never
\* verifies is retried at most max_retry times: the retry_count of its
\* failure entry never exceeds max_retry and no more than max_retry
\* add_torrent calls are made for its hash, the calls of the run in progress
\* included, however many matches within the tolerance a run finds for it.
C31_RetriesBounded ==
    cfg.max_retry >= 1 =>
        \A h \in Hashes :
            h \notin DOMAIN _load_cache(cache).success =>
                /\ StoredRetries(h) <= cfg.max_retry
                /\ AddCalls(h) <= cfg.max_retry

-----------------------------------------------------------------------------
(* Properties of the source's result parser *)

\* C32: with the result parser of the source, _parse_search_results, every
\* site search returns no match, whatever the site answers, so no run enters
\* the push stage: a run has no (torrent, match) pair, makes no add_torrent
\* and no delete_torrents call and leaves the engine's torrents as they
\* were, and the success map, the failure map and the history stay empty;
\* a step of a run leaves the stored ledger and the history as they were.
C32_SourceParserNeverPushes ==
    /\ [](parser = "source" =>
            /\ run.pc # "push"
            /\ run.pairs = <<>>
            /\ run.adds = <<>>
            /\ run.deletes = <<>>
            /\ run.success_count = 0 /\ run.failed_count = 0
            /\ engine = Inventory
            /\ DOMAIN _load_cache(cache).success = {}
            /\ DOMAIN _load_cache(cache).failed = {}
            /\ history = <<>>)
    /\ [][parser = "source" /\ InRun' =>
              cache' = cache /\ history' = history /\ engine' = engine]_vars

\* a run with the source's parser has loaded the ledger, kept a completed
\* torrent of the engine in the filter, searched the target sites for it
\* with its metadata and ended without a pair to push
C32_Witness ==
    /\ parser = "source"
    /\ last.op = "run"
    /\ run.pc = "done"
    /\ run.loaded
    /\ run.filtered # <<>>
    /\ run.metas # <<>>
    /\ run.searches # <<>>
    /\ run.pairs = <<>>

-----------------------------------------------------------------------------
(* Properties of the resolved title *)

\* C33: every metadata value _extract_metadata returns has a non-empty
\* title: when the recognition of the save path returns an identity whose
\* title is empty, the result is what the name parser returns for the
\* torrent name, or nothing when the name has no title either.
C33_ReturnedTitleNonEmpty ==
    last.op = "metadata" =>
        /\ last.result.found => last.result.data.title # <<>>
        /\ (last.in.save_path # "" /\ last.in.media_info.found
                /\ last.in.media_info.title = <<>>) =>
               last.result = _parse_torrent_name(last.in.meta)

====
